---- MODULE Spec2Model ----
(***************************************************************************)
(* Fleet dispatch simulation: road graph, event manager, search            *)
(* algorithms, vehicles, requests and the simulation tick.                 *)
(*                                                                         *)
(* Units.  Distances are integers in metres.  Edge times are integers in   *)
(* eighths of a minute (TimeUnit per minute): add_edge turns whole seconds *)
(* into seconds * 15 / 60 minutes = 2 * seconds eighths, and every event   *)
(* multiplier is a multiple of 1/2, so every product is exact.  Unified    *)
(* edge costs are carried multiplied by CostScale, which clears every      *)
(* denominator of calculate_edge_cost.                                     *)
(***************************************************************************)
EXTENDS Integers, Sequences, FiniteSets, TLC

VARIABLES
    nodes,          \* Graph.nodes: sequence of Node records, id = index - 1
    edges,          \* Graph.edges: node id -> sequence of edge records
    directed,       \* Graph.directed
    weather_zones,  \* EventManager.weather_zones: node id -> zone record
    traffic_zones,  \* EventManager.traffic_zones: node id -> zone record
    closed_roads,   \* EventManager.closed_roads: sequence of <<u, v>>
    result,         \* the search call made on the current graph and its return
    vehicles,       \* Simulation.vehicles: sequence of Vehicle records, id = index - 1
    requests,       \* Simulation.requests: sequence of Request records, id = index - 1
    stats,          \* Simulation.stats
    current_time,   \* Simulation.current_time, minutes
    config,         \* time_step, end_time, search function, heuristic, event manager
    pc,             \* where the running step() is
    new_requests,   \* process_new_requests: the list it iterates over
    req_index,      \* process_new_requests: position in that list
    step_result     \* what the last step() returned

gvars == <<nodes, edges, directed, weather_zones, traffic_zones, closed_roads>>
simvars == <<vehicles, requests, stats, current_time, config, pc, new_requests,
             req_index, step_result>>
vars == <<gvars, result, simvars>>

----------------------------------------------------------------------------
(* Bounds of the model *)

MaxEdgeCalls == 2
MaxClosed == 1
MaxNodes == 2

----------------------------------------------------------------------------
(* Representation *)

\* Python's None for optional numbers (distance, travel_time, current_time,
\* a missing 'base_time' key).
None == -1

\* Eighths of a minute per minute.
TimeUnit == 8

SCALE_FACTOR == 15

\* A missing 'weather' / 'traffic' key of an edge.
NoLabel == "none"

\* float('inf'); larger than every finite distance, time and cost of the model.
inf == 1000000000

\* No search call made on the graph as it is now.
NoResult == [alg |-> "none"]

----------------------------------------------------------------------------
(* graph/position.py *)

\* Euclidean distance; exact on the coordinates this model uses.
distance_to(p, q) ==
    LET s == (p[1] - q[1]) * (p[1] - q[1]) + (p[2] - q[2]) * (p[2] - q[2])
    IN  CHOOSE r \in 0..s : r * r = s

----------------------------------------------------------------------------
(* graph/graph.py *)

NodeIds(ns) == 0..(Len(ns) - 1)

HasNode(ns, node_id) == node_id \in NodeIds(ns)

get_node(ns, node_id) == ns[node_id + 1]

\* Graph.add_node: the new node takes next_id = len(nodes) and an empty
\* adjacency list.
add_node_nodes(ns, x, y, node_type) ==
    Append(ns, [id |-> Len(ns), position |-> <<x, y>>, node_type |-> node_type])

add_node_edges(ns, es) == es @@ (Len(ns) :> <<>>)

\* The travel time in seconds add_edge works with.
edge_time_seconds(dist, edge_speed, travel_time) ==
    IF travel_time # None
    THEN travel_time
    ELSE (dist * 36) \div (10 * edge_speed)

\* The division of the speed branch is exact for these arguments.
edge_time_exact(dist, edge_speed, travel_time) ==
    travel_time # None \/ (dist * 36) % (10 * edge_speed) = 0

edge_info(target, dist, edge_speed, travel_time, open) ==
    [target    |-> target,
     distance  |-> dist * SCALE_FACTOR,
     time      |-> (edge_time_seconds(dist, edge_speed, travel_time)
                        * SCALE_FACTOR * TimeUnit) \div 60,
     open      |-> open,
     base_time |-> None,
     weather   |-> NoLabel,
     traffic   |-> NoLabel,
     \* history: the time add_edge gave the edge (no key of the source's edge)
     created_time |-> (edge_time_seconds(dist, edge_speed, travel_time)
                        * SCALE_FACTOR * TimeUnit) \div 60]

\* add_edge testing the first node only.
add_edge_raises_first_only(ns, id1, id2) == ~HasNode(ns, id1)

\* Graph.add_edge: get_node returns None for an id outside 0..len(nodes)-1
\* and the ValueError is raised before anything is written.
add_edge_raises(ns, id1, id2) == ~HasNode(ns, id1) \/ ~HasNode(ns, id2)

\* Graph.add_edge on existing nodes id1, id2: the edges mapping afterwards.
add_edge(ns, es, dir, id1, id2, distance, edge_speed, travel_time, open) ==
    LET dist == IF distance = None
                THEN distance_to(get_node(ns, id1).position,
                                 get_node(ns, id2).position)
                ELSE distance
        es1 == [es EXCEPT ![id1] =
                   Append(@, edge_info(id2, dist, edge_speed, travel_time, open))]
    IN  IF dir
        THEN es1
        ELSE [es1 EXCEPT ![id2] =
                 Append(@, edge_info(id1, dist, edge_speed, travel_time, open))]

\* Number of add_edge calls the graph has taken.
EdgeCalls(es, dir) ==
    LET RECURSIVE Sum(_)
        Sum(S) == IF S = {} THEN 0
                  ELSE LET n == CHOOSE n \in S : TRUE
                       IN  Len(es[n]) + Sum(S \ {n})
        total == Sum(DOMAIN es)
    IN  IF dir THEN total ELSE total \div 2

----------------------------------------------------------------------------
(* events.py *)

\* WeatherCondition.get_time_multiplier, doubled (1.5 and 2.5 become 3, 5).
WeatherMultiplierX2(condition) ==
    CASE condition = "clear"      -> 2
      [] condition = "rain"       -> 3
      [] condition = "heavy_rain" -> 4
      [] condition = "fog"        -> 5
      [] condition = "snow"       -> 10
      [] OTHER                    -> 2

\* TrafficLevel.get_time_multiplier.
TrafficMultiplier(level) ==
    CASE level = "clear"     -> 1
      [] level = "light"     -> 2
      [] level = "moderate"  -> 3
      [] level = "heavy"     -> 5
      [] level = "congested" -> 8
      [] OTHER               -> 1

zone_record(value, start_time, end_time) ==
    [value |-> value, start_time |-> start_time, end_time |-> end_time]

\* set_weather_zone / set_traffic_zone: the last write wins for each node.
set_zone(zones, node_ids, value, start_time, end_time) ==
    [n \in (DOMAIN zones) \cup node_ids |->
        IF n \in node_ids THEN zone_record(value, start_time, end_time)
        ELSE zones[n]]

\* get_weather_at_node / get_traffic_at_node: the zone's value inside its
\* window (always, when no time is given), "clear" otherwise.
zone_value_at(zones, node_id, now) ==
    IF node_id \notin DOMAIN zones THEN "clear"
    ELSE IF now = None THEN zones[node_id].value
    ELSE IF zones[node_id].start_time <= now
            /\ now <= zones[node_id].end_time
         THEN zones[node_id].value
    ELSE "clear"

get_weather_at_node(wz, node_id, now) ==
    zone_value_at(wz, node_id, now)

get_traffic_at_node(tz, node_id, now) ==
    zone_value_at(tz, node_id, now)

\* Twice get_combined_multiplier.
get_combined_multiplier_x2(wz, tz, node_id, now) ==
    WeatherMultiplierX2(get_weather_at_node(wz, node_id, now))
        * TrafficMultiplier(get_traffic_at_node(tz, node_id, now))

\* The base time apply_events_to_edges multiplies: the saved 'base_time',
\* captured from 'time' on the first application.
edge_base_time(e) == IF e.base_time = None THEN e.time ELSE e.base_time

\* Mutant: the multiplier is applied to the current time, not to base_time.
apply_events_to_edge_on_time(e, wz, tz, node_id, now) ==
    LET m2 == get_combined_multiplier_x2(wz, tz, node_id, now)
    IN  [e EXCEPT !.base_time = edge_base_time(e),
                  !.time = (e.time * m2) \div 2,
                  !.weather = IF m2 # 2
                              THEN get_weather_at_node(wz, node_id, now)
                              ELSE "clear",
                  !.traffic = IF m2 # 2
                              THEN get_traffic_at_node(tz, node_id, now)
                              ELSE "clear"]

\* Mutant: base_time is captured again on every application.
apply_events_to_edge_recapture(e, wz, tz, node_id, now) ==
    LET m2 == get_combined_multiplier_x2(wz, tz, node_id, now)
    IN  [e EXCEPT !.base_time = e.time,
                  !.time = (e.time * m2) \div 2,
                  !.weather = IF m2 # 2
                              THEN get_weather_at_node(wz, node_id, now)
                              ELSE "clear",
                  !.traffic = IF m2 # 2
                              THEN get_traffic_at_node(tz, node_id, now)
                              ELSE "clear"]

\* The body of apply_events_to_edges for one edge leaving node_id.
apply_events_to_edge(e, wz, tz, node_id, now) ==
    LET m2 == get_combined_multiplier_x2(wz, tz, node_id, now)
        base == edge_base_time(e)
    IN  [e EXCEPT !.base_time = base,
                  !.time = (base * m2) \div 2,
                  !.weather = IF m2 # 2
                              THEN get_weather_at_node(wz, node_id, now)
                              ELSE "clear",
                  !.traffic = IF m2 # 2
                              THEN get_traffic_at_node(tz, node_id, now)
                              ELSE "clear"]

apply_events_to_edges(es, wz, tz, now) ==
    [n \in DOMAIN es |->
        [i \in 1..Len(es[n]) |->
            apply_events_to_edge(es[n][i], wz, tz, n, now)]]

\* close_road: whether some edge id1 -> id2 or id2 -> id1 exists.
road_found(es, id1, id2) ==
    \/ id1 \in DOMAIN es /\ \E i \in 1..Len(es[id1]) : es[id1][i].target = id2
    \/ id2 \in DOMAIN es /\ \E i \in 1..Len(es[id2]) : es[id2][i].target = id1

close_direction(es, from, to) ==
    IF from \in DOMAIN es
    THEN [es EXCEPT ![from] =
             [i \in 1..Len(@) |->
                 IF @[i].target = to THEN [@[i] EXCEPT !.open = FALSE] ELSE @[i]]]
    ELSE es

\* close_road: the edges mapping afterwards.
close_road(es, id1, id2) ==
    close_direction(close_direction(es, id1, id2), id2, id1)

\* close_road recording the pair whether or not an edge was found.
close_road_list_always(es, closed, id1, id2) == Append(closed, <<id1, id2>>)

\* close_road: the closed_roads list afterwards.
close_road_list(es, closed, id1, id2) ==
    IF road_found(es, id1, id2) THEN Append(closed, <<id1, id2>>) ELSE closed

is_road_open(closed, id1, id2) ==
    /\ \A i \in 1..Len(closed) : closed[i] # <<id1, id2>>
    /\ \A i \in 1..Len(closed) : closed[i] # <<id2, id1>>

\* load_events_from_config: zones, closed roads, then apply_events_to_edges()
\* without a time.  The configuration holds sequences of
\* [nodes, value, start_time, end_time] zones and of <<from, to>> roads.
RECURSIVE load_zones(_, _)
load_zones(zones, listed) ==
    IF listed = <<>> THEN zones
    ELSE load_zones(set_zone(zones, Head(listed).nodes, Head(listed).value,
                             Head(listed).start_time, Head(listed).end_time),
                    Tail(listed))

RECURSIVE load_closed_roads(_, _, _)
load_closed_roads(es, closed, listed) ==
    IF listed = <<>> THEN <<es, closed>>
    ELSE load_closed_roads(close_road(es, Head(listed)[1], Head(listed)[2]),
                           close_road_list(es, closed, Head(listed)[1],
                                           Head(listed)[2]),
                           Tail(listed))

load_events_from_config(es, events) ==
    LET wz == load_zones(<<>>, events.weather_zones)
        tz == load_zones(<<>>, events.traffic_zones)
        cl == load_closed_roads(es, <<>>, events.closed_roads)
    IN  [edges |-> apply_events_to_edges(cl[1], wz, tz, None),
         weather_zones |-> wz, traffic_zones |-> tz, closed_roads |-> cl[2]]

----------------------------------------------------------------------------
(* graph/graph.py, algorithms.py: helpers of the search algorithms *)

\* find_closest_node: the first node at the least distance (strict <).
find_closest_node(ns, position) ==
    CHOOSE n \in NodeIds(ns) :
        \A m \in NodeIds(ns) :
            LET dn == distance_to(get_node(ns, n).position, position)
                dm == distance_to(get_node(ns, m).position, position)
            IN  dn < dm \/ (dn = dm /\ n <= m)

\* next((e for e in edges[node_id] if e["target"] == next_id), None):
\* the index of the first edge node_id -> next_id, 0 when there is none.
first_edge_to(es, node_id, next_id) ==
    IF \E i \in 1..Len(es[node_id]) : es[node_id][i].target = next_id
    THEN CHOOSE i \in 1..Len(es[node_id]) :
            /\ es[node_id][i].target = next_id
            /\ \A j \in 1..(i - 1) : es[node_id][j].target # next_id
    ELSE 0

\* calculate_path_metrics giving up at the first pair without an edge.
RECURSIVE calculate_path_metrics_strict(_, _)
calculate_path_metrics_strict(es, path) ==
    IF Len(path) < 2 THEN <<0, 0>>
    ELSE LET i    == first_edge_to(es, path[1], path[2])
             rest == calculate_path_metrics_strict(es, Tail(path))
         IN  IF i = 0 THEN <<0, 0>>
             ELSE <<es[path[1]][i].distance + rest[1],
                    es[path[1]][i].time + rest[2]>>

\* calculate_path_metrics: <<total distance, total time>> over the first
\* matching edge of each consecutive pair; a pair without an edge adds 0.
RECURSIVE calculate_path_metrics(_, _)
calculate_path_metrics(es, path) ==
    IF Len(path) < 2 THEN <<0, 0>>
    ELSE LET i    == first_edge_to(es, path[1], path[2])
             rest == calculate_path_metrics(es, Tail(path))
         IN  IF i = 0 THEN rest
             ELSE <<es[path[1]][i].distance + rest[1],
                    es[path[1]][i].time + rest[2]>>

\* Mutant: closed edges are not skipped.
open_edges_all(es, node_id) == es[node_id]

\* The open edges of a node, in adjacency-list order.
open_edges(es, node_id) == SelectSeq(es[node_id], LAMBDA e : e.open)

\* The tuple a search returns.
search_result(distance, time, path) ==
    [distance |-> distance, time |-> time, path |-> path]

no_path == search_result(inf, inf, <<>>)

\* int(time) of DFS.find_path / BFS.find_path: whole minutes.
int_minutes(time) == (time \div TimeUnit) * TimeUnit

----------------------------------------------------------------------------
(* algorithms.py: DFS and BFS *)

max_depth == 100

\* DFS.search: the loop over the stack of (node, path); <<>> is None.
RECURSIVE dfs_loop(_, _, _, _)
dfs_loop(es, end_node, stack, visited) ==
    IF stack = <<>> THEN <<>>
    ELSE LET top     == stack[Len(stack)]
             rest    == SubSeq(stack, 1, Len(stack) - 1)
             current == top[1]
             path    == top[2]
         IN  IF current = end_node THEN path
             ELSE IF current \in visited \/ Len(path) > max_depth
                  THEN dfs_loop(es, end_node, rest, visited)
             ELSE LET visited2 == visited \cup {current}
                      todo == SelectSeq(open_edges(es, current),
                                        LAMBDA e : e.target \notin visited2)
                      pushed == [i \in 1..Len(todo) |->
                                    <<todo[i].target, Append(path, todo[i].target)>>]
                  IN  dfs_loop(es, end_node, rest \o pushed, visited2)

DFS_search(es, start_node, end_node) ==
    dfs_loop(es, end_node, << <<start_node, <<start_node>>>> >>, {})

\* BFS.search: the for loop over the edges of the node just dequeued, from
\* edge i on; visited grows as neighbours are enqueued.
RECURSIVE bfs_expand(_, _, _, _, _)
bfs_expand(out, i, path, queue, visited) ==
    IF i > Len(out) THEN <<queue, visited>>
    ELSE LET neighbor == out[i].target
         IN  IF neighbor \notin visited
             THEN bfs_expand(out, i + 1, path,
                             Append(queue, <<neighbor, Append(path, neighbor)>>),
                             visited \cup {neighbor})
             ELSE bfs_expand(out, i + 1, path, queue, visited)

RECURSIVE bfs_loop(_, _, _, _)
bfs_loop(es, end_node, queue, visited) ==
    IF queue = <<>> THEN <<>>
    ELSE LET current == Head(queue)[1]
             path    == Head(queue)[2]
         IN  IF current = end_node THEN path
             ELSE LET next == bfs_expand(open_edges(es, current), 1, path,
                                         Tail(queue), visited)
                  IN  bfs_loop(es, end_node, next[1], next[2])

\* Mutant: BFS explores depth first.
BFS_search_depth_first(es, start_node, end_node) ==
    DFS_search(es, start_node, end_node)

BFS_search(es, start_node, end_node) ==
    bfs_loop(es, end_node, << <<start_node, <<start_node>>>> >>, {start_node})

\* Mutant: a search that found nothing is not told apart from one that did.
find_path_result_unchecked(es, start_node, end_node, path) ==
    IF start_node = end_node THEN search_result(0, 0, <<start_node>>)
    ELSE LET m == calculate_path_metrics(es, path)
         IN  search_result(m[1], int_minutes(m[2]), path)

\* DFS.find_path / BFS.find_path around the path a search returned.
find_path_result(es, start_node, end_node, path) ==
    IF start_node = end_node THEN search_result(0, 0, <<start_node>>)
    ELSE IF path = <<>> THEN no_path
    ELSE LET m == calculate_path_metrics(es, path)
         IN  search_result(m[1], int_minutes(m[2]), path)

DFS_find_path(ns, es, start_position, end_position) ==
    LET start_node == find_closest_node(ns, start_position)
        end_node   == find_closest_node(ns, end_position)
    IN  find_path_result(es, start_node, end_node,
                         DFS_search(es, start_node, end_node))

BFS_find_path(ns, es, start_position, end_position) ==
    LET start_node == find_closest_node(ns, start_position)
        end_node   == find_closest_node(ns, end_position)
    IN  find_path_result(es, start_node, end_node,
                         BFS_search(es, start_node, end_node))

----------------------------------------------------------------------------
(* algorithms/utils/cost_function.py, algorithms/informed/heuristics.py *)

\* Costs and heuristic values are carried multiplied by CostScale:
\*   PESO_TEMPO / TEMPO_BASE_MIN per eighth of a minute = 0.35 / (1.2 * 8),
\*   PESO_CUSTO and PESO_AMBIENTE terms per metre as below.
CostScale == 1200000

\* CostScale * PESO_TEMPO * tempo_normalizado for one eighth of a minute.
TimeTerm == 43750

NoVehicle == [kind |-> "none"]

\* CostScale * (PESO_CUSTO * custo_normalizado + PESO_AMBIENTE *
\* ambiente_normalizado) for one metre:
\*   no vehicle: 0.50 * (1/1000) + 0.15 * (120/60) / 1000         -> 960
\*   Eletric:    0.50 * (bc/100) * 0.15 / 0.15 / 1000 + 0         -> 6 * bc
\*   Combustion: 0.50 * (fc/100) * 1.80 / 0.15 / 1000
\*               + 0.15 * (fc/100) * 2300 / 60 / 1000             -> 141 * fc
DistanceTerm(vehicle_type) ==
    CASE vehicle_type.kind = "none"       -> 960
      [] vehicle_type.kind = "Eletric"    -> 6 * vehicle_type.battery_consumption
      [] vehicle_type.kind = "Combustion" -> 141 * vehicle_type.fuel_consumption

\* calculate_edge_cost: custo_total * distance.
calculate_edge_cost(distance, time, vehicle_type) ==
    (TimeTerm * time + DistanceTerm(vehicle_type) * distance) * distance

\* calculate_heuristic for criterion 'distance' (and for an unknown criterion,
\* which falls back to it): the Euclidean distance in metres.
calculate_heuristic(pos1, pos2, criterion) ==
    distance_to(pos1, pos2) * CostScale

----------------------------------------------------------------------------
(* heapq: entries are tuples <<priority, counter, ...>> with unique counters *)

heappop(heap) ==
    CHOOSE e \in heap :
        \A f \in heap : e[1] < f[1] \/ (e[1] = f[1] /\ e[2] <= f[2])

----------------------------------------------------------------------------
(* algorithms/uninformed/uniform_cost.py *)

\* Mutant: the edge cost is not added to the accumulated cost.
RECURSIVE ucs_expand_no_edge_cost(_, _, _, _, _, _, _, _)
ucs_expand_no_edge_cost(out, i, cost, path, visited, vehicle_type, heap, counter) ==
    IF i > Len(out) THEN <<heap, counter>>
    ELSE IF out[i].target \notin visited
         THEN ucs_expand_no_edge_cost(out, i + 1, cost, path, visited,
                  vehicle_type,
                  heap \cup {<<cost, counter, out[i].target,
                               Append(path, out[i].target)>>},
                  counter + 1)
         ELSE ucs_expand_no_edge_cost(out, i + 1, cost, path, visited,
                                      vehicle_type, heap, counter)

\* The for loop over the edges of current, from edge i on.
RECURSIVE ucs_expand(_, _, _, _, _, _, _, _)
ucs_expand(out, i, cost, path, visited, vehicle_type, heap, counter) ==
    IF i > Len(out) THEN <<heap, counter>>
    ELSE IF out[i].target \notin visited
         THEN ucs_expand(out, i + 1, cost, path, visited, vehicle_type,
                  heap \cup {<<cost + calculate_edge_cost(out[i].distance,
                                                          out[i].time, vehicle_type),
                               counter, out[i].target,
                               Append(path, out[i].target)>>},
                  counter + 1)
         ELSE ucs_expand(out, i + 1, cost, path, visited, vehicle_type,
                         heap, counter)

RECURSIVE ucs_loop(_, _, _, _, _, _)
ucs_loop(es, goal_node, vehicle_type, heap, counter, visited) ==
    IF heap = {} THEN no_path
    ELSE LET top     == heappop(heap)
             current == top[3]
             path    == top[4]
         IN  IF current = goal_node
             THEN LET m == calculate_path_metrics(es, path)
                  IN  search_result(m[1], m[2], path)
             ELSE IF current \in visited
                  THEN ucs_loop(es, goal_node, vehicle_type, heap \ {top},
                                counter, visited)
             ELSE LET visited2 == visited \cup {current}
                      next == ucs_expand(open_edges(es, current), 1, top[1], path,
                                         visited2, vehicle_type, heap \ {top},
                                         counter)
                  IN  ucs_loop(es, goal_node, vehicle_type, next[1], next[2],
                               visited2)

uniform_cost_search(ns, es, start, goal, vehicle_type) ==
    LET start_node == find_closest_node(ns, start)
        goal_node  == find_closest_node(ns, goal)
    IN  ucs_loop(es, goal_node, vehicle_type,
                 {<<0, 0, start_node, <<start_node>>>>}, 1, {})

----------------------------------------------------------------------------
(* algorithms/informed/greedy.py, algorithms/informed/a_star.py *)

Reverse(seq) == [i \in 1..Len(seq) |-> seq[Len(seq) + 1 - i]]

\* while current.id in came_from: path.append(current.id); current = ...
RECURSIVE came_from_chain(_, _)
came_from_chain(came_from, current) ==
    IF current \in DOMAIN came_from
    THEN <<current>> \o came_from_chain(came_from, came_from[current])
    ELSE <<>>

\* The path both informed searches rebuild once the goal is popped.
reconstruct_path(came_from, current, start_node) ==
    Reverse(Append(came_from_chain(came_from, current), start_node))

\* greedy_bfs: the for loop over the edges of current, from edge i on.
RECURSIVE greedy_expand(_, _, _, _, _, _, _, _, _, _)
greedy_expand(ns, out, i, current, goal_node, criterion, visited, heap, counter, came_from) ==
    IF i > Len(out) THEN <<heap, counter, came_from>>
    ELSE LET neighbor == out[i].target
         IN  IF neighbor \notin visited
             THEN greedy_expand(ns, out, i + 1, current, goal_node, criterion,
                      visited,
                      heap \cup {<<calculate_heuristic(
                                       get_node(ns, neighbor).position,
                                       get_node(ns, goal_node).position, criterion),
                                   counter, neighbor>>},
                      counter + 1,
                      (neighbor :> current) @@ came_from)
             ELSE greedy_expand(ns, out, i + 1, current, goal_node, criterion,
                                visited, heap, counter, came_from)

RECURSIVE greedy_loop(_, _, _, _, _, _, _, _, _)
greedy_loop(ns, es, start_node, goal_node, criterion, heap, counter, came_from, visited) ==
    IF heap = {} THEN no_path
    ELSE LET top     == heappop(heap)
             current == top[3]
         IN  IF current = goal_node
             THEN LET path == reconstruct_path(came_from, current, start_node)
                      m    == calculate_path_metrics(es, path)
                  IN  search_result(m[1], m[2], path)
             ELSE LET visited2 == visited \cup {current}
                      next == greedy_expand(ns, open_edges(es, current), 1,
                                  current, goal_node, criterion, visited2,
                                  heap \ {top}, counter, came_from)
                  IN  greedy_loop(ns, es, start_node, goal_node, criterion,
                                  next[1], next[2], next[3], visited2)

greedy_bfs(ns, es, start, goal, criterion) ==
    LET start_node == find_closest_node(ns, start)
        goal_node  == find_closest_node(ns, goal)
        h_start    == calculate_heuristic(get_node(ns, start_node).position,
                                          get_node(ns, goal_node).position,
                                          criterion)
    IN  greedy_loop(ns, es, start_node, goal_node, criterion,
                    {<<h_start, 0, start_node>>}, 1, <<>>, {})

\* a_star: the for loop over the edges of current, from edge i on.
RECURSIVE a_star_expand(_, _, _, _, _, _, _, _, _, _, _)
a_star_expand(ns, out, i, current, goal_node, criterion, vehicle_type, heap, counter, came_from, g_score) ==
    IF i > Len(out) THEN <<heap, counter, came_from, g_score>>
    ELSE LET neighbor == out[i].target
             tentative_g_score ==
                 g_score[current] + calculate_edge_cost(out[i].distance,
                                                        out[i].time, vehicle_type)
         IN  IF tentative_g_score < g_score[neighbor]
             THEN a_star_expand(ns, out, i + 1, current, goal_node, criterion,
                      vehicle_type,
                      heap \cup {<<tentative_g_score
                                     + calculate_heuristic(
                                           get_node(ns, neighbor).position,
                                           get_node(ns, goal_node).position,
                                           criterion),
                                   counter, neighbor>>},
                      counter + 1,
                      (neighbor :> current) @@ came_from,
                      [g_score EXCEPT ![neighbor] = tentative_g_score])
             ELSE a_star_expand(ns, out, i + 1, current, goal_node, criterion,
                                vehicle_type, heap, counter, came_from, g_score)

RECURSIVE a_star_loop(_, _, _, _, _, _, _, _, _, _)
a_star_loop(ns, es, start_node, goal_node, criterion, vehicle_type, heap, counter, came_from, g_score) ==
    IF heap = {} THEN no_path
    ELSE LET top     == heappop(heap)
             current == top[3]
         IN  IF current = goal_node
             THEN LET path == reconstruct_path(came_from, current, start_node)
                      m    == calculate_path_metrics(es, path)
                  IN  search_result(m[1], m[2], path)
             ELSE LET next == a_star_expand(ns, open_edges(es, current), 1,
                                  current, goal_node, criterion, vehicle_type,
                                  heap \ {top}, counter, came_from, g_score)
                  IN  a_star_loop(ns, es, start_node, goal_node, criterion,
                                  vehicle_type, next[1], next[2], next[3], next[4])

a_star(ns, es, start, goal, criterion, vehicle_type) ==
    LET start_node == find_closest_node(ns, start)
        goal_node  == find_closest_node(ns, goal)
        h_start    == calculate_heuristic(get_node(ns, start_node).position,
                                          get_node(ns, goal_node).position,
                                          criterion)
    IN  a_star_loop(ns, es, start_node, goal_node, criterion, vehicle_type,
                    {<<h_start, 0, start_node>>}, 1, <<>>,
                    [n \in NodeIds(ns) |-> IF n = start_node THEN 0 ELSE inf])

----------------------------------------------------------------------------
(* vehicle/vehicle_types.py, refuel_helper.py *)

\* Energy levels (kWh or litres) are carried multiplied by EnergyScale, so
\* that consumption / 100 * metres / 1000 is the integer consumption * metres.
EnergyScale == 100000

REFUEL_TIME == 6
RECHARGE_TIME == 30

\* SAFETY_MARGIN = 0.15, as hundredths.
SAFETY_MARGIN_PCT == 15

Eletric(battery_capacity, battery_consumption, current_battery) ==
    [kind |-> "Eletric", battery_capacity |-> battery_capacity,
     battery_consumption |-> battery_consumption,
     current_battery |-> current_battery]

Combustion(fuel_capacity, fuel_consumption, current_fuel) ==
    [kind |-> "Combustion", fuel_capacity |-> fuel_capacity,
     fuel_consumption |-> fuel_consumption, current_fuel |-> current_fuel]

Max(a, b) == IF a >= b THEN a ELSE b

\* Hybrid.__init__.
Hybrid(battery_capacity, battery_consumption, fuel_capacity, fuel_consumption, current_battery, current_fuel) ==
    [kind |-> "Hybrid", battery_capacity |-> battery_capacity,
     battery_consumption |-> battery_consumption,
     fuel_capacity |-> fuel_capacity, fuel_consumption |-> fuel_consumption,
     current_battery |-> current_battery, current_fuel |-> current_fuel]

\* battery_distance_km of the Hybrid methods and bateria_km of the cost
\* function, in metres: the distance the battery level covers, 0 when the
\* consumption is not positive.
battery_distance(t) ==
    IF t.battery_consumption > 0
    THEN t.current_battery \div t.battery_consumption
    ELSE 0

\* fuel_distance_km of Hybrid.has_enough_energy, in metres.
fuel_distance(t) ==
    IF t.fuel_consumption > 0 THEN t.current_fuel \div t.fuel_consumption ELSE 0

\* Eletric.consume / Combustion.consume / Hybrid.consume of a distance in
\* metres.  The Hybrid uses the battery alone when it holds the energy
\* needed, and otherwise empties it and takes the rest of the distance from
\* the fuel, which stops at 0.
consume(vehicle_type, distance) ==
    IF vehicle_type.kind = "Eletric"
    THEN [vehicle_type EXCEPT !.current_battery =
             Max(0, @ - vehicle_type.battery_consumption * distance)]
    ELSE IF vehicle_type.kind = "Combustion"
    THEN [vehicle_type EXCEPT !.current_fuel =
             Max(0, @ - vehicle_type.fuel_consumption * distance)]
    ELSE LET needed_battery == vehicle_type.battery_consumption * distance
         IN  IF vehicle_type.current_battery >= needed_battery
             THEN [vehicle_type EXCEPT !.current_battery = Max(0, @ - needed_battery)]
             ELSE LET remaining_distance == distance - battery_distance(vehicle_type)
                      needed_fuel == vehicle_type.fuel_consumption * remaining_distance
                  IN  [vehicle_type EXCEPT !.current_battery = 0,
                                           !.current_fuel = Max(0, @ - needed_fuel)]

\* Hybrid.has_enough_energy; the distance is given in hundredths of a metre,
\* which is where distance * (1 + SAFETY_MARGIN) lies.
has_enough_energy(t, distance_x100) ==
    100 * (battery_distance(t) + fuel_distance(t)) >= distance_x100

\* float addition of distances and times, either of which may be inf.
fadd(a, b) == IF a >= inf \/ b >= inf THEN inf ELSE a + b

\* needs_refuel with the bare distance in place of distance * (1 + SAFETY_MARGIN).
needs_refuel_no_margin(vehicle, distance) ==
    LET t == vehicle.vehicle_type
    IN  IF distance >= inf THEN TRUE
        ELSE IF t.kind = "Eletric"
        THEN ~(t.current_battery >= t.battery_consumption * distance)
        ELSE IF t.kind = "Combustion"
        THEN ~(t.current_fuel >= t.fuel_consumption * distance)
        ELSE ~has_enough_energy(t, distance * 100)

\* needs_refuel: not has_enough_battery / has_enough_fuel / has_enough_energy
\* for distance * (1 + SAFETY_MARGIN); nothing is enough for an infinite
\* distance.
needs_refuel(vehicle, distance) ==
    LET t == vehicle.vehicle_type
    IN  IF distance >= inf THEN TRUE
        ELSE IF t.kind = "Eletric"
        THEN ~(100 * t.current_battery
                   >= t.battery_consumption * distance * (100 + SAFETY_MARGIN_PCT))
        ELSE IF t.kind = "Combustion"
        THEN ~(100 * t.current_fuel
                   >= t.fuel_consumption * distance * (100 + SAFETY_MARGIN_PCT))
        ELSE ~has_enough_energy(t, distance * (100 + SAFETY_MARGIN_PCT))

\* Prices of config.py in cents per kWh and per litre.
PRECO_BATERIA_CENTS == 15
PRECO_COMBUSTIVEL_CENTS == 180

\* _calculate_operational_cost of a distance in metres, in cents times
\* EnergyScale: the price of the energy the distance takes.  The Hybrid pays
\* battery energy up to bateria_km and fuel for the rest of the distance.
operational_cost(t, distance) ==
    IF t.kind = "Eletric"
    THEN t.battery_consumption * distance * PRECO_BATERIA_CENTS
    ELSE IF t.kind = "Combustion"
    THEN t.fuel_consumption * distance * PRECO_COMBUSTIVEL_CENTS
    ELSE LET bateria == battery_distance(t)
         IN  IF distance <= bateria
             THEN t.battery_consumption * distance * PRECO_BATERIA_CENTS
             ELSE t.battery_consumption * bateria * PRECO_BATERIA_CENTS
                  + t.fuel_consumption * (distance - bateria) * PRECO_COMBUSTIVEL_CENTS

EMISSIONS_COMBUSTION_G_PER_KM == 120
EMISSIONS_HYBRID_G_PER_KM == 90

\* calculate_emissions charging the whole distance whatever the battery holds.
calculate_emissions_whole(t, distance) ==
    IF t.kind = "Eletric" THEN 0
    ELSE IF t.kind = "Combustion" THEN EMISSIONS_COMBUSTION_G_PER_KM * distance
    ELSE EMISSIONS_HYBRID_G_PER_KM * distance

\* calculate_emissions of the three types for a distance in metres, in
\* thousandths of a gram (grams per km times metres).
calculate_emissions(t, distance) ==
    IF t.kind = "Eletric" THEN 0
    ELSE IF t.kind = "Combustion" THEN EMISSIONS_COMBUSTION_G_PER_KM * distance
    ELSE IF battery_distance(t) >= distance THEN 0
    ELSE EMISSIONS_HYBRID_G_PER_KM * (distance - battery_distance(t))

\* get_refuel_time, in eighths of a minute.
get_refuel_time(vehicle) ==
    IF vehicle.vehicle_type.kind = "Eletric"
    THEN RECHARGE_TIME * TimeUnit
    ELSE REFUEL_TIME * TimeUnit

get_station_type_for_vehicle(vehicle) ==
    IF vehicle.vehicle_type.kind = "Eletric" THEN "charging" ELSE "fuel"

\* find_nearest_station: the id of the first station of the type at the least
\* distance, None when the graph has no such station.
find_nearest_station(ns, position, station_type) ==
    LET stations == {n \in NodeIds(ns) : get_node(ns, n).node_type = station_type}
    IN  IF stations = {} THEN None
        ELSE CHOOSE n \in stations :
                \A m \in stations :
                    LET dn == distance_to(position, get_node(ns, n).position)
                        dm == distance_to(position, get_node(ns, m).position)
                    IN  dn < dm \/ (dn = dm /\ n <= m)

----------------------------------------------------------------------------
(* vehicle/vehicle.py, request.py *)

\* Vehicle.__init__.  current_position is kept at the node last reached and
\* the metres of an edge are consumed when its travel completes; the source
\* moves the position and consumes along the edge in per-tick slices with the
\* same sum.
Vehicle(id, vehicle_type, capacity, status, start_point) ==
    [id |-> id, vehicle_type |-> vehicle_type, capacity |-> capacity,
     status |-> status, current_position |-> start_point,
     current_node_id |-> None, passengers |-> 0, current_request |-> None,
     phase |-> "none", needs_refuel |-> FALSE, refuel_node_id |-> None,
     refuel_station_type |-> "none", refuel_time_remaining |-> 0,
     path |-> <<>>, path_to_pickup |-> <<>>, path_to_dropoff |-> <<>>,
     current_edge_from |-> None, current_edge_to |-> None,
     edge_travel_time |-> 0, time_remaining_on_edge |-> 0,
     trail |-> << <<status, "none", 0, 0>> >>]

\* Request.__init__.
Request(id, start_point, end_point, requested_time, passengers, eco_friendly) ==
    [id |-> id, start_point |-> start_point, end_point |-> end_point,
     requested_time |-> requested_time, passengers |-> passengers,
     eco_friendly |-> eco_friendly, status |-> "pending",
     assigned_vehicle |-> None, history |-> <<"pending">>]

\* History of a vehicle's lifecycle inside the operation under way (assign or
\* update_status): trail starts with <<status, phase, ..>> as the operation
\* found them and gets one entry per method that writes status or phase,
\* <<status, phase, len(path), refuel_time_remaining>>, the last two as they
\* were when the method was entered.
begin_trail(v) ==
    [v EXCEPT !.trail = << <<v.status, v.phase, Len(v.path), v.refuel_time_remaining>> >>]

record(v, before) ==
    [v EXCEPT !.trail = Append(@, <<v.status, v.phase, Len(before.path),
                                    before.refuel_time_remaining>>)]

\* The vehicle operations below take and return <<vehicle, requests>>: a
\* vehicle writes the status of its current request.
set_request_status(rs, request_id, status) ==
    IF request_id = None THEN rs
    ELSE [rs EXCEPT ![request_id + 1].status = status,
                    ![request_id + 1].history = Append(@, status)]

start_edge_travel(v, es) ==
    LET from == v.path[1]
        to   == v.path[2]
        i    == first_edge_to(es, from, to)
        edge_time == IF i = 0 THEN 0 ELSE es[from][i].time
    IN  [v EXCEPT !.current_edge_from = from,
                  !.current_edge_to = to,
                  !.edge_travel_time = edge_time,
                  !.time_remaining_on_edge = edge_time,
                  !.path = Tail(v.path)]

transition_to_refueling(v) ==
    record([v EXCEPT !.phase = "refueling", !.status = "REFUELING"], v)

\* _reset_to_idle leaving current_request in place.
reset_to_idle_keeps_request(v) ==
    record([v EXCEPT !.status = "IDLE", !.phase = "none", !.passengers = 0,
                     !.path = <<>>,
                     !.current_edge_from = None, !.current_edge_to = None,
                     !.needs_refuel = FALSE], v)

reset_to_idle(v) ==
    record([v EXCEPT !.status = "IDLE", !.phase = "none", !.passengers = 0,
                     !.current_request = None, !.path = <<>>,
                     !.current_edge_from = None, !.current_edge_to = None,
                     !.needs_refuel = FALSE], v)

\* _complete_trip handing the request back to the pending queue.
complete_trip_reopen(v, rs) ==
    <<reset_to_idle(v), set_request_status(rs, v.current_request, "pending")>>

complete_trip(v, rs) ==
    <<reset_to_idle(v), set_request_status(rs, v.current_request, "completed")>>

RECURSIVE advance_to_next_edge(_, _, _, _)

transition_to_dropoff(v, rs, ns, es) ==
    advance_to_next_edge(
        [record([v EXCEPT !.phase = "to_dropoff"], v)
            EXCEPT !.passengers = IF v.current_request # None
                                  THEN rs[v.current_request + 1].passengers
                                  ELSE 0,
                   !.path = v.path_to_dropoff],
        set_request_status(rs, v.current_request, "picked_up"), ns, es)

arrive_at_destination(v, rs, ns, es) ==
    LET at == [v EXCEPT !.current_node_id = v.path[1],
                        !.current_position = get_node(ns, v.path[1]).position]
    IN  CASE v.phase = "to_refuel"  -> <<transition_to_refueling(at), rs>>
          [] v.phase = "to_pickup"  -> transition_to_dropoff(at, rs, ns, es)
          [] v.phase = "to_dropoff" -> complete_trip(at, rs)
          [] OTHER                  -> <<at, rs>>

advance_to_next_edge(v, rs, ns, es) ==
    IF Len(v.path) >= 2 THEN <<start_edge_travel(v, es), rs>>
    ELSE IF Len(v.path) = 1 THEN arrive_at_destination(v, rs, ns, es)
    ELSE <<record([v EXCEPT !.status = "IDLE"], v), rs>>

\* Vehicle.assign; refuel_info is <<>> (None in the source) or
\* <<refuel_path, refuel_node_id, refuel_time, station_type>>.
setup_refuel_phase(v, refuel_info, path_to_pickup) ==
    record([v EXCEPT !.needs_refuel = TRUE,
                     !.refuel_node_id = refuel_info[2],
                     !.refuel_station_type = refuel_info[4],
                     !.refuel_time_remaining = refuel_info[3],
                     !.phase = "to_refuel",
                     !.status = "TRAVELING",
                     !.path = refuel_info[1],
                     !.path_to_pickup = path_to_pickup], v)

setup_pickup_phase(v, path_to_pickup) ==
    record([v EXCEPT !.needs_refuel = FALSE,
                     !.phase = "to_pickup",
                     !.status = "TRAVELING",
                     !.path = path_to_pickup], v)

assign(v, rs, request_id, path_to_pickup, path_to_dropoff, ns, es, refuel_info) ==
    LET v1  == [begin_trail(v) EXCEPT !.current_request = request_id,
                                      !.passengers = 0]
        rs1 == set_request_status(
                   [rs EXCEPT ![request_id + 1].assigned_vehicle = v.id],
                   request_id, "assigned")
        v2  == IF Len(refuel_info) > 0 /\ Len(refuel_info[1]) > 0
               THEN setup_refuel_phase(v1, refuel_info, path_to_pickup)
               ELSE setup_pickup_phase(v1, path_to_pickup)
        v3  == [v2 EXCEPT !.path_to_dropoff = path_to_dropoff]
    IN  advance_to_next_edge(v3, rs1, ns, es)

complete_refuel(v) ==
    IF v.vehicle_type.kind = "Eletric"
    THEN [v EXCEPT !.vehicle_type.current_battery = v.vehicle_type.battery_capacity]
    ELSE [v EXCEPT !.vehicle_type.current_fuel = v.vehicle_type.fuel_capacity]

\* _process_refueling without the test of the timer.
process_refueling_no_wait(v, rs, ns, es, time_step) ==
    LET v1 == [v EXCEPT !.refuel_time_remaining = @ - time_step * TimeUnit]
    IN  advance_to_next_edge(
            record([complete_refuel(v1) EXCEPT !.phase = "to_pickup",
                                               !.status = "TRAVELING",
                                               !.path = v1.path_to_pickup,
                                               !.refuel_time_remaining = 0,
                                               !.refuel_station_type = "none"],
                   v1),
            rs, ns, es)

process_refueling(v, rs, ns, es, time_step) ==
    LET v1 == [v EXCEPT !.refuel_time_remaining = @ - time_step * TimeUnit]
    IN  IF v1.refuel_time_remaining <= 0
        THEN advance_to_next_edge(
                 record([complete_refuel(v1) EXCEPT !.phase = "to_pickup",
                                                    !.status = "TRAVELING",
                                                    !.path = v1.path_to_pickup,
                                                    !.refuel_time_remaining = 0,
                                                    !.refuel_station_type = "none"],
                        v1),
                 rs, ns, es)
        ELSE <<v1, rs>>

complete_edge_travel(v, rs, ns, es) ==
    LET position == get_node(ns, v.current_edge_to).position
        distance_traveled == distance_to(v.current_position, position)
        v1 == [v EXCEPT !.current_node_id = v.current_edge_to,
                        !.current_position = position,
                        !.vehicle_type = IF distance_traveled > 0
                                         THEN consume(@, distance_traveled)
                                         ELSE @]
    IN  advance_to_next_edge(v1, rs, ns, es)

\* _process_travel without the countdown of the edge under way.
process_travel_no_countdown(v, rs, ns, es, time_step) ==
    IF v.time_remaining_on_edge <= 0
    THEN complete_edge_travel(v, rs, ns, es)
    ELSE <<v, rs>>

process_travel(v, rs, ns, es, time_step) ==
    LET v1 == [v EXCEPT !.time_remaining_on_edge = @ - time_step * TimeUnit]
    IN  IF v1.time_remaining_on_edge <= 0
        THEN complete_edge_travel(v1, rs, ns, es)
        ELSE <<v1, rs>>

update_step(v, rs, ns, es, time_step) ==
    IF v.phase = "refueling" THEN process_refueling(v, rs, ns, es, time_step)
    ELSE IF v.status # "TRAVELING" THEN <<v, rs>>
    ELSE IF v.current_edge_from = None \/ v.current_edge_to = None THEN <<v, rs>>
    ELSE process_travel(v, rs, ns, es, time_step)

update_status(v, rs, ns, es, time_step) ==
    update_step(begin_trail(v), rs, ns, es, time_step)

----------------------------------------------------------------------------
(* simulation.py *)

\* Simulation.search_algorithm: the configured search function called with
\* the configured heuristic and the vehicle's type.
search_algorithm(func, heuristic, start, goal, ns, es, vehicle_type) ==
    CASE func = "a_star"       -> a_star(ns, es, start, goal, heuristic, vehicle_type)
      [] func = "greedy"       -> greedy_bfs(ns, es, start, goal, heuristic)
      [] func = "bfs"          -> BFS_find_path(ns, es, start, goal)
      [] func = "dfs"          -> DFS_find_path(ns, es, start, goal)
      [] func = "uniform_cost" -> uniform_cost_search(ns, es, start, goal, vehicle_type)

is_finished(now, end) == now >= end

\* get_available_vehicles without its status filter.
get_available_vehicles_any_status(vs) == [i \in 1..Len(vs) |-> vs[i].id]

\* get_available_vehicles: the ids of the IDLE vehicles, in list order.
get_available_vehicles(vs) ==
    SelectSeq([i \in 1..Len(vs) |-> vs[i].id], LAMBDA id : vs[id + 1].status = "IDLE")

\* get_available_vehicles_for_request without the eco-friendly filter.
get_available_vehicles_for_request_any_type(vs, request) == get_available_vehicles(vs)

get_available_vehicles_for_request(vs, request) ==
    IF request.eco_friendly
    THEN SelectSeq(get_available_vehicles(vs),
                   LAMBDA id : vs[id + 1].vehicle_type.kind = "Eletric")
    ELSE get_available_vehicles(vs)

\* Body(value), the value computed once: a local variable of the source that
\* holds the result of a call.
With(value, Body(_)) == CHOOSE r \in {Body(x) : x \in {value}} : TRUE

\* The body of the for loop of assign_request_to_vehicle for one vehicle
\* that passed the capacity test: the legs, the refuel detour, the totals.
evaluate_legs(func, heuristic, vehicle, request, ns, es, leg1, leg2) ==
    LET t    == vehicle.vehicle_type
        refuel_needed == needs_refuel(vehicle, fadd(leg1.distance, leg2.distance))
        station_type  == get_station_type_for_vehicle(vehicle)
        refuel_station ==
            IF refuel_needed
            THEN find_nearest_station(ns, vehicle.current_position, station_type)
            ELSE None
    IN  IF refuel_needed /\ refuel_station # None
        THEN LET to_station   == search_algorithm(func, heuristic,
                                     vehicle.current_position,
                                     get_node(ns, refuel_station).position, ns, es, t)
                 from_station == search_algorithm(func, heuristic,
                                     get_node(ns, refuel_station).position,
                                     request.start_point, ns, es, t)
                 refuel_time  == get_refuel_time(vehicle)
             IN  [vehicle |-> vehicle.id,
                  time1 |-> fadd(fadd(to_station.time, refuel_time), from_station.time),
                  time2 |-> leg2.time,
                  path1 |-> from_station.path,
                  path2 |-> leg2.path,
                  refuel_needed |-> TRUE,
                  refuel_station |-> refuel_station,
                  refuel_path |-> to_station.path,
                  refuel_time |-> refuel_time,
                  station_type |-> station_type,
                  total_distance |-> fadd(fadd(to_station.distance,
                                               from_station.distance), leg2.distance)]
        ELSE [vehicle |-> vehicle.id,
              time1 |-> leg1.time,
              time2 |-> leg2.time,
              path1 |-> leg1.path,
              path2 |-> leg2.path,
              refuel_needed |-> refuel_needed,
              refuel_station |-> None,
              refuel_path |-> <<>>,
              refuel_time |-> 0,
              station_type |-> IF refuel_needed THEN station_type ELSE "none",
              total_distance |-> fadd(leg1.distance, leg2.distance)]

evaluate_vehicle(func, heuristic, vehicle, request, ns, es) ==
    With(search_algorithm(func, heuristic, vehicle.current_position,
                          request.start_point, ns, es, vehicle.vehicle_type),
         LAMBDA leg1 :
    With(search_algorithm(func, heuristic, request.start_point,
                          request.end_point, ns, es, vehicle.vehicle_type),
         LAMBDA leg2 :
             evaluate_legs(func, heuristic, vehicle, request, ns, es, leg1, leg2)))

\* total_time_cost without the pickup -> dropoff leg.
total_time_cost_first_leg(c) == c.time1

\* total_time_cost = time1 + time2 of the for loop.
total_time_cost(c) == fadd(c.time1, c.time2)

NoVehicleChosen == [vehicle |-> None]

\* The for loop of assign_request_to_vehicle keeping the candidate of the
\* smallest total distance.
RECURSIVE best_candidate_by_distance(_, _, _, _, _, _, _, _, _, _)
best_candidate_by_distance(func, heuristic, vs, available, i, request, ns, es, best, best_cost) ==
    IF i > Len(available) THEN best
    ELSE LET vehicle == vs[available[i] + 1]
         IN  IF vehicle.capacity < request.passengers
             THEN best_candidate_by_distance(func, heuristic, vs, available, i + 1,
                                             request, ns, es, best, best_cost)
             ELSE With(evaluate_vehicle(func, heuristic, vehicle, request, ns, es),
                       LAMBDA c :
                       IF c.total_distance < best_cost
                       THEN best_candidate_by_distance(func, heuristic, vs, available,
                                i + 1, request, ns, es, c, c.total_distance)
                       ELSE best_candidate_by_distance(func, heuristic, vs, available,
                                i + 1, request, ns, es, best, best_cost))

\* The for loop of assign_request_to_vehicle from the i-th available vehicle
\* on; best is the candidate kept so far.
RECURSIVE best_candidate(_, _, _, _, _, _, _, _, _, _)
best_candidate(func, heuristic, vs, available, i, request, ns, es, best, best_cost) ==
    IF i > Len(available) THEN best
    ELSE LET vehicle == vs[available[i] + 1]
         IN  IF vehicle.capacity < request.passengers
             THEN best_candidate(func, heuristic, vs, available, i + 1, request,
                                 ns, es, best, best_cost)
             ELSE With(evaluate_vehicle(func, heuristic, vehicle, request, ns, es),
                       LAMBDA c :
                       IF total_time_cost(c) < best_cost
                       THEN best_candidate(func, heuristic, vs, available, i + 1,
                                           request, ns, es, c, total_time_cost(c))
                       ELSE best_candidate(func, heuristic, vs, available, i + 1,
                                           request, ns, es, best, best_cost))

\* assign_request_to_vehicle after its for loop, best being the candidate
\* the loop kept.
assign_best(vs, rs, st, request_id, ns, es, best) ==
        IF best.vehicle = None
        THEN [vehicles |-> vs, requests |-> rs, stats |-> st, vehicle |-> None]
        ELSE LET refuel_info ==
                     IF best.refuel_needed /\ best.refuel_station # None
                        /\ best.refuel_path # <<>>
                     THEN <<best.refuel_path, best.refuel_station,
                            best.refuel_time, best.station_type>>
                     ELSE <<>>
                 after == assign(vs[best.vehicle + 1], rs, request_id, best.path1,
                                 best.path2, ns, es, refuel_info)
             IN  [vehicles |-> [vs EXCEPT ![best.vehicle + 1] = after[1]],
                  requests |-> after[2],
                  stats |-> [st EXCEPT !.total_distance = @ + best.total_distance,
                                       !.total_time = @ + best.time1 + best.time2],
                  vehicle |-> best.vehicle]

\* assign_request_to_vehicle: the vehicles, requests and statistics
\* afterwards, and the id of the vehicle returned (None when none).
assign_request_to_vehicle(func, heuristic, vs, rs, st, request_id, ns, es) ==
    LET request == rs[request_id + 1]
        available == get_available_vehicles_for_request(vs, request)
    IN  With(best_candidate(func, heuristic, vs, available, 1, request, ns, es,
                            NoVehicleChosen, inf),
             LAMBDA best : assign_best(vs, rs, st, request_id, ns, es, best))

\* process_new_requests: the ids of the requests due and still pending.
new_requests_at(rs, now) ==
    SelectSeq([i \in 1..Len(rs) |-> rs[i].id],
              LAMBDA id : rs[id + 1].requested_time <= now
                          /\ rs[id + 1].status = "pending")

\* update_vehicles from the i-th vehicle on: <<vehicles, requests>>.
RECURSIVE update_vehicles(_, _, _, _, _, _)
update_vehicles(vs, rs, i, ns, es, time_step) ==
    IF i > Len(vs) THEN <<vs, rs>>
    ELSE With(update_status(vs[i], rs, ns, es, time_step),
              LAMBDA u : update_vehicles([vs EXCEPT ![i] = u[1]], u[2], i + 1,
                                         ns, es, time_step))

count_status(rs, statuses) == Cardinality({i \in 1..Len(rs) : rs[i].status \in statuses})

\* update_statistics counting the assigned requests as pending too.
update_statistics_assigned_pending(st, rs, now, end) ==
    LET pending == count_status(rs, {"pending", "assigned"})
    IN  [st EXCEPT !.requests_completed = count_status(rs, {"completed"}),
                   !.requests_pending = pending,
                   !.requests_in_progress = count_status(rs, {"assigned", "picked_up"}),
                   !.requests_not_served = IF is_finished(now, end) THEN pending ELSE @]

\* update_statistics (the fuel cost and the search timings are left out).
update_statistics(st, rs, now, end) ==
    LET pending == count_status(rs, {"pending"})
    IN  [st EXCEPT !.requests_completed = count_status(rs, {"completed"}),
                   !.requests_pending = pending,
                   !.requests_in_progress = count_status(rs, {"assigned", "picked_up"}),
                   !.requests_not_served = IF is_finished(now, end) THEN pending ELSE @]

----------------------------------------------------------------------------
(* Graph and event manager under arbitrary calls *)

\* No simulation is constructed.
NoSimulation ==
    /\ vehicles = <<>>
    /\ requests = <<>>
    /\ stats = <<>>
    /\ current_time = 0
    /\ config = <<>>
    /\ pc = "none"
    /\ new_requests = <<>>
    /\ req_index = 0
    /\ step_result = "none"


\* The two nodes of the graph the calls are made on, as add_node builds them.
EventNodes ==
    add_node_nodes(add_node_nodes(<<>>, 0, 0, "generic"), 3, 0, "generic")

EventEdges ==
    add_node_edges(add_node_nodes(<<>>, 0, 0, "generic"), add_node_edges(<<>>, <<>>))

\* distance, edge_speed, travel_time (seconds), open
EdgeInputs ==
    { [distance |-> None, edge_speed |-> 50, travel_time |-> 2,    open |-> TRUE],
      [distance |-> 125,  edge_speed |-> 50, travel_time |-> None, open |-> TRUE] }

ZoneNodeIds == {0, 1}
WeatherInputs == {"rain"}
WeatherWindows == {<<30, 60>>}
TrafficInputs == {"heavy"}
TrafficWindows == {<<0, 1440>>}
ApplyTimes == {None, 60, 90}

\* The program builds its graph with Graph(), which is undirected.
InitGraph ==
    /\ nodes = EventNodes
    /\ edges = EventEdges
    /\ directed = FALSE
    /\ weather_zones = <<>>
    /\ traffic_zones = <<>>
    /\ closed_roads = <<>>
    /\ result = NoResult
    /\ NoSimulation

AddEdge ==
    \E id1 \in NodeIds(nodes), id2 \in NodeIds(nodes), a \in EdgeInputs :
        /\ id1 # id2
        /\ EdgeCalls(edges, directed) < MaxEdgeCalls
        /\ edge_time_exact(IF a.distance = None
                           THEN distance_to(get_node(nodes, id1).position,
                                            get_node(nodes, id2).position)
                           ELSE a.distance, a.edge_speed, a.travel_time)
        /\ edges' = add_edge(nodes, edges, directed, id1, id2,
                             a.distance, a.edge_speed, a.travel_time, a.open)
        /\ UNCHANGED <<nodes, directed, weather_zones, traffic_zones, closed_roads, result, simvars>>

CloseRoad ==
    \E id1 \in ZoneNodeIds, id2 \in ZoneNodeIds :
        /\ road_found(edges, id1, id2) => Len(closed_roads) < MaxClosed
        /\ edges' = close_road(edges, id1, id2)
        /\ closed_roads' = close_road_list(edges, closed_roads, id1, id2)
        /\ UNCHANGED <<nodes, directed, weather_zones, traffic_zones, result, simvars>>

SetWeatherZone ==
    \E ids \in (SUBSET ZoneNodeIds) \ {{}}, c \in WeatherInputs, w \in WeatherWindows :
        /\ weather_zones' = set_zone(weather_zones, ids, c, w[1], w[2])
        /\ UNCHANGED <<nodes, edges, directed, traffic_zones, closed_roads, result, simvars>>

SetTrafficZone ==
    \E ids \in (SUBSET ZoneNodeIds) \ {{}}, l \in TrafficInputs, w \in TrafficWindows :
        /\ traffic_zones' = set_zone(traffic_zones, ids, l, w[1], w[2])
        /\ UNCHANGED <<nodes, edges, directed, weather_zones, closed_roads, result, simvars>>

ApplyEventsAt(t) ==
    /\ edges' = apply_events_to_edges(edges, weather_zones, traffic_zones, t)
    /\ UNCHANGED <<nodes, directed, weather_zones, traffic_zones, closed_roads, result, simvars>>

ApplyEvents == \E t \in ApplyTimes : ApplyEventsAt(t)

NextGraph ==
    \/ AddEdge
    \/ CloseRoad
    \/ SetWeatherZone
    \/ SetTrafficZone
    \/ ApplyEvents

SpecGraph == InitGraph /\ [][NextGraph]_vars

----------------------------------------------------------------------------
(* The five search algorithms on graphs built by add_edge and close_road:
   a graph is built, then one search is run on it *)

MaxSearchEdges == 3

\* Three nodes A = 0, B = 1, C = 2 on a 3-4-5 triangle.
SearchNodes ==
    add_node_nodes(add_node_nodes(add_node_nodes(<<>>, 0, 0, "generic"),
                                  3, 0, "generic"), 0, 4, "generic")

SearchEdges == [n \in NodeIds(SearchNodes) |-> <<>>]

\* distance (road length), edge_speed, travel_time (seconds), open
SearchEdgeInputs ==
    { [distance |-> 1, edge_speed |-> 50, travel_time |-> 2, open |-> TRUE],
      [distance |-> 2, edge_speed |-> 50, travel_time |-> 2, open |-> TRUE] }

\* Node ids whose positions are the start and goal positions of the calls.
SearchOrigins == {0, 1}
SearchGoals == {0, 2}

VehicleTypes ==
    { NoVehicle, [kind |-> "Eletric", battery_consumption |-> 15] }

Criteria == {"distance"}

make_result(alg, start, goal, criterion, vehicle_type, r) ==
    [alg |-> alg, start |-> start, goal |-> goal, criterion |-> criterion,
     vehicle_type |-> vehicle_type,
     distance |-> r.distance, time |-> r.time, path |-> r.path]

InitSearch ==
    /\ nodes = SearchNodes
    /\ edges = SearchEdges
    /\ directed = FALSE
    /\ weather_zones = <<>>
    /\ traffic_zones = <<>>
    /\ closed_roads = <<>>
    /\ result = NoResult
    /\ NoSimulation

SearchAddEdge ==
    \E id1 \in NodeIds(nodes), id2 \in NodeIds(nodes), a \in SearchEdgeInputs :
        /\ id1 # id2
        /\ result = NoResult
        /\ EdgeCalls(edges, directed) < MaxSearchEdges
        /\ edges' = add_edge(nodes, edges, directed, id1, id2,
                             a.distance, a.edge_speed, a.travel_time, a.open)
        /\ UNCHANGED <<nodes, directed, weather_zones, traffic_zones, closed_roads, result, simvars>>

SearchCloseRoad ==
    \E id1 \in NodeIds(nodes), id2 \in NodeIds(nodes) :
        /\ result = NoResult
        /\ id1 < id2
        /\ road_found(edges, id1, id2)
        /\ Len(closed_roads) < MaxClosed
        /\ edges' = close_road(edges, id1, id2)
        /\ closed_roads' = close_road_list(edges, closed_roads, id1, id2)
        /\ UNCHANGED <<nodes, directed, weather_zones, traffic_zones, result, simvars>>

SearchDFS ==
    \E o \in SearchOrigins, g \in SearchGoals :
        /\ result = NoResult
        /\ result' = make_result("DFS", o, g, "none", NoVehicle,
                         DFS_find_path(nodes, edges, get_node(nodes, o).position,
                                       get_node(nodes, g).position))
        /\ UNCHANGED <<gvars, simvars>>

SearchBFS ==
    \E o \in SearchOrigins, g \in SearchGoals :
        /\ result = NoResult
        /\ result' = make_result("BFS", o, g, "none", NoVehicle,
                         BFS_find_path(nodes, edges, get_node(nodes, o).position,
                                       get_node(nodes, g).position))
        /\ UNCHANGED <<gvars, simvars>>

SearchUniformCost ==
    \E o \in SearchOrigins, g \in SearchGoals, vt \in VehicleTypes :
        /\ result = NoResult
        /\ result' = make_result("uniform_cost", o, g, "none", vt,
                         uniform_cost_search(nodes, edges,
                             get_node(nodes, o).position,
                             get_node(nodes, g).position, vt))
        /\ UNCHANGED <<gvars, simvars>>

SearchGreedy ==
    \E o \in SearchOrigins, g \in SearchGoals, c \in Criteria, vt \in VehicleTypes :
        /\ result = NoResult
        /\ result' = make_result("greedy", o, g, c, vt,
                         greedy_bfs(nodes, edges, get_node(nodes, o).position,
                                    get_node(nodes, g).position, c))
        /\ UNCHANGED <<gvars, simvars>>

SearchAStar ==
    \E o \in SearchOrigins, g \in SearchGoals, c \in Criteria, vt \in VehicleTypes :
        /\ result = NoResult
        /\ result' = make_result("a_star", o, g, c, vt,
                         a_star(nodes, edges, get_node(nodes, o).position,
                                get_node(nodes, g).position, c, vt))
        /\ UNCHANGED <<gvars, simvars>>

NextSearch ==
    \/ SearchAddEdge
    \/ SearchCloseRoad
    \/ SearchDFS
    \/ SearchBFS
    \/ SearchUniformCost
    \/ SearchGreedy
    \/ SearchAStar

SpecSearch == InitSearch /\ [][NextSearch]_vars

----------------------------------------------------------------------------
(* The simulation: step() over a loaded dataset *)

\* Minutes of a run: end_time is start + Horizon (the source fixes 8:00 and
\* 20:00).
Horizon == 45

StartTime == 8 * 60

\* Nodes 0 (0,0), 1 (3,0), 2 (0,4) a charging station, 3 (3,4) a fuel
\* station; roads 0-1, 0-2, 1-2 and 1-3, each of 8 s (2 min once scaled).
SimNodes ==
    add_node_nodes(add_node_nodes(add_node_nodes(add_node_nodes(<<>>,
        0, 0, "generic"), 3, 0, "generic"), 0, 4, "charging"), 3, 4, "fuel")

SimRoads == << <<0, 1>>, <<0, 2>>, <<1, 2>>, <<1, 3>> >>

RECURSIVE add_roads(_, _, _)
add_roads(ns, es, roads) ==
    IF roads = <<>> THEN es
    ELSE add_roads(ns, add_edge(ns, es, FALSE, Head(roads)[1], Head(roads)[2],
                                None, 50, 8, TRUE), Tail(roads))

SimEdges == add_roads(SimNodes, [n \in NodeIds(SimNodes) |-> <<>>], SimRoads)

NoEvents == [weather_zones |-> <<>>, traffic_zones |-> <<>>, closed_roads |-> <<>>]

\* The 'events' section of the dataset; <<>> when the dataset has none.
EventConfigs ==
    { <<>>,
      [NoEvents EXCEPT !.weather_zones =
          << [nodes |-> {0}, value |-> "rain",
              start_time |-> StartTime, end_time |-> StartTime + 29] >>],
      [NoEvents EXCEPT !.closed_roads = << <<1, 3>> >>] }

FullBattery == 50 * EnergyScale
FullTank == 40 * EnergyScale

\* 0.01 kWh: not enough for any trip with the safety margin.
LowBattery == 1000

BatteryLevels == {FullBattery, LowBattery}

VehicleStarts == {1, 3}

\* start node, end node, passengers, eco_friendly of request 0
FirstRequests ==
    { <<1, 2, 1, FALSE>>, <<3, 2, 1, FALSE>>, <<1, 3, 1, FALSE>>,
      <<1, 2, 1, TRUE>>,  <<1, 2, 5, FALSE>> }

\* requested_time, eco_friendly of request 1 (node 2 to node 0)
SecondRequests == {<<StartTime, FALSE>>, <<StartTime + 3, FALSE>>, <<StartTime, TRUE>>}

\* load_dataset marks node 2 as a charging station when the dataset lists it.
ChargingNodeTypes == {"charging", "generic"}

mark_station(ns, node_id, node_type) ==
    [ns EXCEPT ![node_id + 1].node_type = node_type]

SearchFunctions == {"a_star", "greedy", "bfs", "dfs", "uniform_cost"}

TimeSteps == {1, 7}

node_position(n) == get_node(SimNodes, n).position

\* Simulation(database, search_algorithm, time_step, heuristic) on a loaded
\* dataset, with end_time minutes after the start and one of the search
\* functions.
Simulation(horizon, functions) ==
    \E events \in EventConfigs, battery \in BatteryLevels, start \in VehicleStarts,
       first \in FirstRequests, second \in SecondRequests,
       charging \in ChargingNodeTypes,
       func \in functions, time_step \in TimeSteps :
        LET loaded == IF events = <<>>
                      THEN [edges |-> SimEdges, weather_zones |-> <<>>,
                            traffic_zones |-> <<>>, closed_roads |-> <<>>]
                      ELSE load_events_from_config(SimEdges, events)
        IN  /\ battery = FullBattery => charging = "charging"
            /\ nodes = mark_station(SimNodes, 2, charging)
            /\ edges = loaded.edges
            /\ directed = FALSE
            /\ weather_zones = loaded.weather_zones
            /\ traffic_zones = loaded.traffic_zones
            /\ closed_roads = loaded.closed_roads
            /\ result = NoResult
            /\ vehicles =
                 << Vehicle(0, Eletric(FullBattery, 15, battery), 4, "IDLE",
                            node_position(0)),
                    Vehicle(1, Combustion(FullTank, 7, FullTank), 4, "IDLE",
                            node_position(start)) >>
            /\ requests =
                 << Request(0, node_position(first[1]), node_position(first[2]),
                            StartTime, first[3], first[4]),
                    Request(1, node_position(2), node_position(0), second[1], 1,
                            second[2]) >>
            /\ stats = [requests_completed |-> 0, requests_pending |-> 2,
                        requests_in_progress |-> None, total_distance |-> 0,
                        total_time |-> 0, requests_not_served |-> 0]
            /\ current_time = StartTime
            /\ config = [time_step |-> time_step, end_time |-> StartTime + horizon,
                         search_algorithm_func |-> func, heuristic |-> "distance",
                         event_manager |-> events # <<>>]
            /\ pc = "ready"
            /\ new_requests = <<>>
            /\ req_index = 0
            /\ step_result = "none"

Init == Simulation(Horizon, SearchFunctions)

\* step() called when the simulation is finished: returns {'finished': True}.
StepFinished ==
    /\ pc = "ready"
    /\ is_finished(current_time, config.end_time)
    /\ step_result' = "finished"
    /\ UNCHANGED <<gvars, result, vehicles, requests, stats, current_time, config,
                   pc, new_requests, req_index>>

\* step(): the event refresh and the list process_new_requests builds.
StepBegin ==
    /\ pc = "ready"
    /\ ~is_finished(current_time, config.end_time)
    /\ edges' = IF config.event_manager /\ current_time % 30 = 0
                THEN apply_events_to_edges(edges, weather_zones, traffic_zones,
                                           current_time)
                ELSE edges
    /\ new_requests' = new_requests_at(requests, current_time)
    /\ req_index' = 1
    /\ pc' = "requests"
    /\ UNCHANGED <<nodes, directed, weather_zones, traffic_zones, closed_roads,
                   result, vehicles, requests, stats, current_time, config,
                   step_result>>

\* One turn of the loop of process_new_requests with a search that stores
\* a time on the first edge it expands.
AssignRequestWritingEdge ==
    /\ pc = "requests"
    /\ req_index <= Len(new_requests)
    /\ \E a \in {assign_request_to_vehicle(config.search_algorithm_func,
                    config.heuristic, vehicles, requests, stats,
                    new_requests[req_index], nodes, edges)} :
           /\ vehicles' = a.vehicles
           /\ requests' = a.requests
           /\ stats' = a.stats
    /\ req_index' = req_index + 1
    /\ edges' = [edges EXCEPT ![0][1].time = @ + 1]
    /\ UNCHANGED <<nodes, directed, weather_zones, traffic_zones, closed_roads,
                   result, current_time, config, pc, new_requests, step_result>>

\* process_new_requests: one turn of its loop.
AssignRequest ==
    /\ pc = "requests"
    /\ req_index <= Len(new_requests)
    /\ \E a \in {assign_request_to_vehicle(config.search_algorithm_func,
                    config.heuristic, vehicles, requests, stats,
                    new_requests[req_index], nodes, edges)} :
           /\ vehicles' = a.vehicles
           /\ requests' = a.requests
           /\ stats' = a.stats
    /\ req_index' = req_index + 1
    /\ UNCHANGED <<gvars, result, current_time, config, pc, new_requests,
                   step_result>>

\* update_vehicles run from inside the loop of process_new_requests.
UpdateVehiclesEarly ==
    /\ pc = "requests"
    /\ \E u \in {update_vehicles(vehicles, requests, 1, nodes, edges,
                                  config.time_step)} :
           /\ vehicles' = u[1]
           /\ requests' = u[2]
    /\ pc' = "statistics"
    /\ UNCHANGED <<gvars, result, stats, current_time, config, new_requests,
                   req_index, step_result>>

\* step(): update_vehicles once the loop of process_new_requests is over.
UpdateVehicles ==
    /\ pc = "requests"
    /\ req_index > Len(new_requests)
    /\ \E u \in {update_vehicles(vehicles, requests, 1, nodes, edges,
                                  config.time_step)} :
           /\ vehicles' = u[1]
           /\ requests' = u[2]
    /\ pc' = "statistics"
    /\ UNCHANGED <<gvars, result, stats, current_time, config, new_requests,
                   req_index, step_result>>

UpdateStatistics ==
    /\ pc = "statistics"
    /\ stats' = update_statistics(stats, requests, current_time, config.end_time)
    /\ pc' = "clock"
    /\ UNCHANGED <<gvars, result, vehicles, requests, current_time, config,
                   new_requests, req_index, step_result>>

\* step() returning without moving the clock.
AdvanceClockStalled ==
    /\ pc = "clock"
    /\ step_result' = "running"
    /\ pc' = "ready"
    /\ UNCHANGED <<gvars, result, vehicles, requests, stats, current_time, config,
                   new_requests, req_index>>

\* step(): the clock advance and the return.
AdvanceClock ==
    /\ pc = "clock"
    /\ current_time' = current_time + config.time_step
    /\ step_result' = "running"
    /\ pc' = "ready"
    /\ UNCHANGED <<gvars, result, vehicles, requests, stats, config,
                   new_requests, req_index>>

Next ==
    \/ StepFinished
    \/ StepBegin
    \/ AssignRequest
    \/ UpdateVehicles
    \/ UpdateStatistics
    \/ AdvanceClock

Spec == Init /\ [][Next]_vars

\* Where the running step() is: its phase and its place in the loop of
\* process_new_requests.
control == <<pc, req_index>>

\* The loop of process_new_requests takes its next turn.
loop_turn ==
    /\ pc = "requests"
    /\ req_index <= Len(new_requests)
    /\ req_index' = req_index + 1
    /\ pc' = pc

\* The loop of process_new_requests is over and update_vehicles has run.
loop_exit ==
    /\ pc = "requests"
    /\ req_index > Len(new_requests)
    /\ pc' = "statistics"
    /\ req_index' = req_index

\* run_batch, and any caller that keeps calling step(): step() is straight-line
\* code over finite loops, so a call that has started reaches each of its
\* phases and its return, and the loop of run_batch starts the next call while
\* the simulation is not finished.  The turns of the assignment loop and the
\* vehicle update are the only steps that move control through pc =
\* "requests", so their fairness is stated on control.
SpecRun ==
    /\ Init /\ [][Next]_vars
    /\ WF_vars(StepFinished) /\ WF_vars(StepBegin)
    /\ WF_control(loop_turn) /\ WF_control(loop_exit)
    /\ WF_vars(UpdateStatistics) /\ WF_vars(AdvanceClock)

TripHorizon == 75

TripSearchFunctions == {"a_star", "dfs"}

\* The same simulation with an end bound late enough for every trip it
\* accepts (each edge and each minute of a dwell can take a whole tick of 7
\* minutes, and a request may wait for the vehicle of an earlier trip).
InitTrips == Simulation(TripHorizon, TripSearchFunctions)

SpecTrips ==
    /\ InitTrips /\ [][Next]_vars
    /\ WF_vars(StepFinished) /\ WF_vars(StepBegin)
    /\ WF_control(loop_turn) /\ WF_control(loop_exit)
    /\ WF_vars(UpdateStatistics) /\ WF_vars(AdvanceClock)

----------------------------------------------------------------------------
(* A graph built from Graph(directed) by add_node and add_edge calls, with
   roads closed on it; result holds the last call and its outcome *)

\* The ids the calls are made with: 0 and 1, which exist or not according
\* to the number of nodes added so far, and one below every id.
BuildIds == {0 - 1, 0, 1}

\* Nodes are placed along a line, 3 m apart.
build_position(n) == <<3 * n, 0>>

\* distance, edge_speed, travel_time (seconds), open
BuildEdgeInputs ==
    { [distance |-> 100, edge_speed |-> 50, travel_time |-> 4, open |-> TRUE],
      [distance |-> 200, edge_speed |-> 50, travel_time |-> 2, open |-> TRUE] }

call(name, id1, id2, error) ==
    [alg |-> name, id1 |-> id1, id2 |-> id2, error |-> error]

InitBuild ==
    /\ nodes = <<>>
    /\ edges = <<>>
    /\ directed \in BOOLEAN
    /\ weather_zones = <<>>
    /\ traffic_zones = <<>>
    /\ closed_roads = <<>>
    /\ result = NoResult
    /\ NoSimulation

\* add_node with a Node class that takes the capacity keyword.
BuildAddNode ==
    /\ Len(nodes) < MaxNodes
    /\ nodes' = add_node_nodes(nodes, build_position(Len(nodes))[1],
                               build_position(Len(nodes))[2], "generic")
    /\ edges' = add_node_edges(nodes, edges)
    /\ result' = call("add_node", Len(nodes), None, "none")
    /\ UNCHANGED <<directed, weather_zones, traffic_zones, closed_roads, simvars>>

\* add_node with graph/node.py as it is: Node.__init__ has no capacity
\* parameter, the constructor call raises and nothing has been written.
BuildAddNodeRaises ==
    /\ result' = call("add_node", None, None, "TypeError")
    /\ UNCHANGED <<gvars, simvars>>

BuildAddEdge ==
    \E id1 \in BuildIds, id2 \in BuildIds, a \in BuildEdgeInputs :
        IF add_edge_raises(nodes, id1, id2)
        THEN /\ result' = call("add_edge", id1, id2, "ValueError")
             /\ UNCHANGED <<gvars, simvars>>
        ELSE /\ EdgeCalls(edges, directed) < MaxEdgeCalls
             /\ edges' = add_edge(nodes, edges, directed, id1, id2,
                                  a.distance, a.edge_speed, a.travel_time, a.open)
             /\ result' = call("add_edge", id1, id2, "none")
             /\ UNCHANGED <<nodes, directed, weather_zones, traffic_zones,
                            closed_roads, simvars>>

BuildCloseRoad ==
    \E id1 \in BuildIds, id2 \in BuildIds :
        /\ road_found(edges, id1, id2) => Len(closed_roads) < MaxClosed
        /\ edges' = close_road(edges, id1, id2)
        /\ closed_roads' = close_road_list(edges, closed_roads, id1, id2)
        /\ result' = call("close_road", id1, id2, "none")
        /\ UNCHANGED <<nodes, directed, weather_zones, traffic_zones, simvars>>

NextBuild ==
    \/ BuildAddNode
    \/ BuildAddNodeRaises
    \/ BuildAddEdge
    \/ BuildCloseRoad

SpecBuild == InitBuild /\ [][NextBuild]_vars

----------------------------------------------------------------------------
(* One vehicle of each type, with the levels it may hold, under needs_refuel,
   cost-function and _consume_energy calls *)

MaxConsumes == 2

\* Eletric 50 kWh at 20 kWh/100 km; Combustion 40 l at 5 l/100 km; Hybrid
\* 10 kWh at 20 kWh/100 km and 4 l at 5 l/100 km.  Every level is a multiple of
\* the consumption it is divided by, and stays one under consume.
EnergyTypes ==
    {Eletric(50 * EnergyScale, 20, b) :
        b \in {2 * EnergyScale, 11 * EnergyScale, 50 * EnergyScale}}
    \cup {Combustion(40 * EnergyScale, 5, f) :
        f \in {EnergyScale \div 4, 3 * EnergyScale}}
    \cup {Hybrid(10 * EnergyScale, 20, 4 * EnergyScale, 5, b, f) :
        b \in {0, EnergyScale, 10 * EnergyScale},
        f \in {0, EnergyScale \div 10, 4 * EnergyScale}}

\* Distances in metres.
EnergyDistances == {5000, 10000, 50000}

\* The part of a Vehicle that _consume_energy and needs_refuel use.
EnergyVehicle(vehicle_type) ==
    [vehicle_type |-> vehicle_type, total_emissions |-> 0,
     total_distance_traveled |-> 0, consumes |-> 0]

NoCall == [call |-> "none"]

InitEnergy ==
    /\ nodes = <<>>
    /\ edges = <<>>
    /\ directed = FALSE
    /\ weather_zones = <<>>
    /\ traffic_zones = <<>>
    /\ closed_roads = <<>>
    /\ result = NoCall
    /\ \E t \in EnergyTypes : vehicles = <<EnergyVehicle(t)>>
    /\ requests = <<>>
    /\ stats = <<>>
    /\ current_time = 0
    /\ config = <<>>
    /\ pc = "none"
    /\ new_requests = <<>>
    /\ req_index = 0
    /\ step_result = "none"

\* needs_refuel(vehicle, distance).
EnergyNeedsRefuel ==
    \E distance \in EnergyDistances :
        /\ result' = [call |-> "needs_refuel", distance |-> distance,
                      vehicle_type |-> vehicles[1].vehicle_type,
                      returned |-> needs_refuel(vehicles[1], distance)]
        /\ UNCHANGED <<gvars, vehicles, requests, stats, current_time, config, pc, new_requests, req_index, step_result>>

\* _calculate_operational_cost(distance, vehicle.vehicle_type).
EnergyCost ==
    \E distance \in EnergyDistances :
        /\ result' = [call |-> "cost", distance |-> distance,
                      vehicle_type |-> vehicles[1].vehicle_type,
                      returned |-> operational_cost(vehicles[1].vehicle_type, distance)]
        /\ UNCHANGED <<gvars, vehicles, requests, stats, current_time, config, pc, new_requests, req_index, step_result>>

\* Vehicle._consume_energy(distance): the emissions of the distance are
\* computed on the levels before consume changes them.
EnergyConsume ==
    \E distance \in EnergyDistances :
        /\ vehicles[1].consumes < MaxConsumes
        /\ result' = [call |-> "consume", distance |-> distance,
                      vehicle_type |-> vehicles[1].vehicle_type,
                      returned |-> calculate_emissions(vehicles[1].vehicle_type, distance)]
        /\ vehicles' = <<[vehicles[1] EXCEPT
                             !.total_emissions = @ + calculate_emissions(vehicles[1].vehicle_type, distance),
                             !.vehicle_type = consume(@, distance),
                             !.total_distance_traveled = @ + distance,
                             !.consumes = @ + 1]>>
        /\ UNCHANGED <<gvars, requests, stats, current_time, config, pc, new_requests, req_index, step_result>>

NextEnergy == EnergyNeedsRefuel \/ EnergyCost \/ EnergyConsume

SpecEnergy == InitEnergy /\ [][NextEnergy]_vars

----------------------------------------------------------------------------
(* calculate_path_metrics on graphs built by add_edge, for paths over their
   nodes *)

MaxMetricEdges == 2

\* The longest path measured.
MaxPathLen == 4

\* Every sequence of 3..MaxPathLen node ids, adjacent or not.
MetricPaths == UNION {[1..n -> NodeIds(SearchNodes)] : n \in 3..MaxPathLen}

InitMetrics ==
    /\ nodes = SearchNodes
    /\ edges = SearchEdges
    /\ directed \in BOOLEAN
    /\ weather_zones = <<>>
    /\ traffic_zones = <<>>
    /\ closed_roads = <<>>
    /\ result = NoCall
    /\ NoSimulation

MetricsAddEdge ==
    \E id1 \in NodeIds(nodes), id2 \in NodeIds(nodes), a \in SearchEdgeInputs :
        /\ id1 # id2
        /\ result = NoCall
        /\ EdgeCalls(edges, directed) < MaxMetricEdges
        /\ edges' = add_edge(nodes, edges, directed, id1, id2,
                             a.distance, a.edge_speed, a.travel_time, a.open)
        /\ UNCHANGED <<nodes, directed, weather_zones, traffic_zones, closed_roads, result, simvars>>

\* graph.calculate_path_metrics(path), once on the graph built.
MetricsCall ==
    \E path \in MetricPaths :
        /\ result = NoCall
        /\ result' = [call |-> "calculate_path_metrics", path |-> path,
                      returned |-> calculate_path_metrics(edges, path)]
        /\ UNCHANGED <<gvars, simvars>>

NextMetrics == MetricsAddEdge \/ MetricsCall

SpecMetrics == InitMetrics /\ [][NextMetrics]_vars

----------------------------------------------------------------------------
(* Claims about the graph and the event manager (SpecGraph) *)

EdgeSlots(es) == UNION {{<<n, i>> : i \in 1..Len(es[n])} : n \in DOMAIN es}

\* C3: in an undirected graph every edge u -> v has a mirror edge v -> u with
\* the same distance and the same current time, after any sequence of
\* add_edge, close_road, set_weather_zone, set_traffic_zone and
\* apply_events_to_edges calls.
C3_MirrorEdges ==
    ~directed =>
        \A s \in EdgeSlots(edges) :
            LET e == edges[s[1]][s[2]]
            IN  \E j \in 1..Len(edges[e.target]) :
                    /\ edges[e.target][j].target = s[1]
                    /\ edges[e.target][j].distance = e.distance
                    /\ edges[e.target][j].time = e.time

\* C4: event multipliers never compound: right after any
\* apply_events_to_edges(t), whatever calls came before, every edge's time is
\* its creation-time time x weather multiplier(source, t) x traffic
\* multiplier(source, t) (stated doubled, the weather multiplier being held
\* doubled); outside every window of the source node it is the creation time.
C4_NoCompounding ==
    [][\A t \in ApplyTimes :
          ApplyEventsAt(t) =>
              \A s \in EdgeSlots(edges') :
                  LET e == edges'[s[1]][s[2]]
                      w == zone_value_at(weather_zones, s[1], t)
                      l == zone_value_at(traffic_zones, s[1], t)
                  IN  /\ 2 * e.time = e.created_time * WeatherMultiplierX2(w)
                                                     * TrafficMultiplier(l)
                      /\ (w = "clear" /\ l = "clear") => e.time = e.created_time]_vars

\* An edge to which rain (x 1.5) and heavy traffic (x 5) are applied together.
C4_Witness ==
    \E s \in EdgeSlots(edges) :
        LET e == edges[s[1]][s[2]]
        IN  e.base_time # None /\ e.created_time > 0 /\ 2 * e.time = 15 * e.created_time

\* C5: apply_events_to_edges is idempotent: right after a call at t, a second
\* call at the same t leaves every edge's time as the first call left it.
C5_Idempotent ==
    [][\A t \in ApplyTimes :
          ApplyEventsAt(t) =>
              LET again == apply_events_to_edges(edges', weather_zones, traffic_zones, t)
              IN  \A s \in EdgeSlots(edges') :
                      again[s[1]][s[2]].time = edges'[s[1]][s[2]].time]_vars

\* An edge to which rain alone (x 1.5) is applied.
C5_Witness ==
    \E s \in EdgeSlots(edges) :
        LET e == edges[s[1]][s[2]]
        IN  e.base_time # None /\ e.created_time > 0 /\ 2 * e.time = 3 * e.created_time

----------------------------------------------------------------------------
(* Claims about the search algorithms (SpecSearch) *)

\* Some edge u -> v with open = true.
joined_open(es, u, v) ==
    \E i \in 1..Len(es[u]) : es[u][i].target = v /\ es[u][i].open

\* Every consecutive pair of the path is joined by an open edge.
open_path(es, path) ==
    \A k \in 1..(Len(path) - 1) : joined_open(es, path[k], path[k + 1])

\* The nodes reachable from S over open edges.
RECURSIVE reach(_, _)
reach(es, S) ==
    LET T == S \cup {v \in DOMAIN es : \E u \in S : joined_open(es, u, v)}
    IN  IF T = S THEN S ELSE reach(es, T)

reachable(es, u, v) == v \in reach(es, {u})

\* The node sequences without repetition.
SimplePaths(ns) ==
    UNION {{p \in [1..k -> NodeIds(ns)] :
               \A i \in 1..k : \A j \in 1..k : p[i] = p[j] => i = j} :
           k \in 1..Len(ns)}

\* The least unified cost of an open edge u -> v.
hop_cost(es, u, v, vehicle_type) ==
    LET costs == {calculate_edge_cost(es[u][i].distance, es[u][i].time, vehicle_type) :
                     i \in {j \in 1..Len(es[u]) : es[u][j].target = v /\ es[u][j].open}}
    IN  CHOOSE c \in costs : \A d \in costs : c <= d

\* The total unified cost of an open-edge path.
RECURSIVE path_cost(_, _, _)
path_cost(es, path, vehicle_type) ==
    IF Len(path) < 2 THEN 0
    ELSE hop_cost(es, path[1], path[2], vehicle_type)
             + path_cost(es, Tail(path), vehicle_type)

searched == result.alg # "none"

all_open(es) == \A s \in EdgeSlots(es) : es[s[1]][s[2]].open

\* C2: every returned non-empty path runs from the start node to the goal
\* node over edges with open = true, for each of the five algorithms and any
\* closed roads; on the line A-B-C with A-B closed a search from A to C takes
\* the open alternative when there is one (here the road A-C) and returns no
\* path when there is none.
C2_OpenEdgesOnly ==
    searched =>
        /\ result.path # <<>> =>
              /\ open_path(edges, result.path)
              /\ result.path[1] = result.start
              /\ result.path[Len(result.path)] = result.goal
        /\ (result.start = 0 /\ result.goal = 2 /\ ~joined_open(edges, 0, 1)) =>
              IF joined_open(edges, 0, 2)
              THEN result.path = <<0, 2>>
              ELSE result.path = <<>>

\* A-B closed, B-C open, A-C open: the search from A to C goes round A-B.
C2_Witness ==
    /\ searched
    /\ result.start = 0 /\ result.goal = 2
    /\ <<0, 1>> \in {closed_roads[i] : i \in 1..Len(closed_roads)}
    /\ joined_open(edges, 1, 2)
    /\ result.path = <<0, 2>>

\* C6: when the goal is reachable over open edges, uniform_cost_search
\* returns a path whose total calculate_edge_cost is no larger than that of
\* any open-edge path between the same two nodes.
C6_UniformCostOptimal ==
    (result.alg = "uniform_cost" /\ reachable(edges, result.start, result.goal)) =>
        /\ result.path # <<>>
        /\ \A p \in SimplePaths(nodes) :
              (p[1] = result.start /\ p[Len(p)] = result.goal /\ open_path(edges, p))
                  => path_cost(edges, result.path, result.vehicle_type)
                         <= path_cost(edges, p, result.vehicle_type)

\* uniform_cost_search returns the two-edge path although a direct edge exists.
C6_Witness ==
    /\ result.alg = "uniform_cost"
    /\ joined_open(edges, result.start, result.goal)
    /\ Len(result.path) = 3

\* C7: A* with the 'distance' heuristic never returns a path whose total
\* unified cost exceeds that of the path uniform_cost_search returns for the
\* same origin, goal, vehicle type and graph.
C7_AStarNoWorseThanUniformCost ==
    (result.alg = "a_star" /\ result.criterion = "distance" /\ result.path # <<>>) =>
        LET ucs == uniform_cost_search(nodes, edges,
                       get_node(nodes, result.start).position,
                       get_node(nodes, result.goal).position, result.vehicle_type)
        IN  path_cost(edges, result.path, result.vehicle_type)
                <= path_cost(edges, ucs.path, result.vehicle_type)

\* C8: when all edges are open, the path BFS returns has no more edges than
\* the path DFS, Uniform-Cost, Greedy-Best-First or A* returns between the
\* same two nodes.
C8_BFSFewestEdges ==
    (searched /\ result.alg # "BFS" /\ all_open(edges) /\ result.path # <<>>) =>
        LET bfs == BFS_find_path(nodes, edges,
                       get_node(nodes, result.start).position,
                       get_node(nodes, result.goal).position)
        IN  bfs.path # <<>> /\ Len(bfs.path) <= Len(result.path)

\* Another algorithm returns two edges where BFS returns one.
C8_Witness ==
    /\ searched /\ result.alg # "BFS" /\ all_open(edges)
    /\ Len(result.path) = 3
    /\ Len(BFS_find_path(nodes, edges, get_node(nodes, result.start).position,
                         get_node(nodes, result.goal).position).path) = 2

\* C9: when the goal node cannot be reached from the origin node over open
\* edges, each of the five algorithms terminates and returns
\* (infinity, infinity, []).
C9_NoPathIsAValue ==
    (searched /\ ~reachable(edges, result.start, result.goal)) =>
        /\ result.distance = inf
        /\ result.time = inf
        /\ result.path = <<>>

\* The goal is cut off by a closed road and the search returns no path.
C9_Witness ==
    /\ searched
    /\ ~reachable(edges, result.start, result.goal)
    /\ closed_roads # <<>>
    /\ result.path = <<>>

----------------------------------------------------------------------------
(* Claims about the simulation step (Spec) *)

ActiveStatuses == {"assigned", "picked_up"}

\* The requests in progress whose assigned vehicle is the one with this id.
held_by(rs, vehicle_id) ==
    {i \in 1..Len(rs) : rs[i].assigned_vehicle = vehicle_id
                        /\ rs[i].status \in ActiveStatuses}

C1_OneRequestPerVehicle ==
    \A k \in 1..Len(vehicles) :
        /\ Cardinality(held_by(requests, vehicles[k].id)) <= 1
        /\ held_by(requests, vehicles[k].id) # {} => vehicles[k].status # "IDLE"

\* A request leaves 'pending' for a vehicle that held no request in progress.
C1_SelectedWasFree ==
    \A i \in 1..Len(requests) :
        (requests[i].status = "pending" /\ requests'[i].status # "pending") =>
            held_by(requests, requests'[i].assigned_vehicle) = {}

\* C1: a vehicle is never double-booked: in every state of a run of step(),
\* between two assignments of one tick included, each vehicle is the
\* assigned vehicle of at most one request that is 'assigned' or
\* 'picked_up', a vehicle holding such a request is not IDLE, and it is
\* never selected for another request.
C1_NeverDoubleBooked ==
    []C1_OneRequestPerVehicle /\ [][C1_SelectedWasFree]_vars

\* Inside one tick, after both due requests were assigned: each to its own
\* vehicle.
C1_Witness ==
    /\ pc = "requests"
    /\ Len(new_requests) = 2
    /\ req_index = 3
    /\ requests[1].status = "assigned"
    /\ requests[2].status = "assigned"
    /\ requests[1].assigned_vehicle # requests[2].assigned_vehicle
    /\ \A k \in 1..Len(vehicles) : vehicles[k].status # "IDLE"

\* The vehicles the for loop of assign_request_to_vehicle evaluates.
eligible_vehicles(vs, request) ==
    {k \in 1..Len(vs) :
        /\ vs[k].status = "IDLE"
        /\ request.eco_friendly => vs[k].vehicle_type.kind = "Eletric"
        /\ vs[k].capacity >= request.passengers}

\* One of the two legs of the trip has the no-path result.
no_path_leg(vehicle, request) ==
    \/ search_algorithm(config.search_algorithm_func, config.heuristic,
                        vehicle.current_position, request.start_point,
                        nodes, edges, vehicle.vehicle_type) = no_path
    \/ search_algorithm(config.search_algorithm_func, config.heuristic,
                        request.start_point, request.end_point,
                        nodes, edges, vehicle.vehicle_type) = no_path

dispatch_fields(v) == <<v.status, v.phase, v.path, v.current_request>>

assignment_turn ==
    pc = "requests" /\ req_index <= Len(new_requests) /\ req_index' = req_index + 1

\* C11: every assignment respects eligibility: when a request leaves
\* 'pending', the chosen vehicle was IDLE, its capacity is at least the
\* request's passengers, the requested time is not later than the clock and
\* an eco-friendly request got an Eletric vehicle; when no vehicle meets the
\* constraints the request stays 'pending'.
C11_EligibleAssignment ==
    [][/\ \A i \in 1..Len(requests) :
            (requests[i].status = "pending" /\ requests'[i].status # "pending") =>
                LET v == vehicles[requests'[i].assigned_vehicle + 1]
                IN  /\ v.status = "IDLE"
                    /\ v.capacity >= requests[i].passengers
                    /\ requests[i].requested_time <= current_time
                    /\ requests[i].eco_friendly => v.vehicle_type.kind = "Eletric"
       /\ assignment_turn =>
            LET id == new_requests[req_index]
            IN  eligible_vehicles(vehicles, requests[id + 1]) = {} =>
                    /\ requests'[id + 1].status = "pending"
                    /\ vehicles' = vehicles
      ]_vars

\* Both due requests were considered; the eco-friendly second one stays
\* pending while the Combustion vehicle is IDLE and the Eletric one is busy.
C11_Witness ==
    /\ pc = "requests"
    /\ Len(new_requests) = 2
    /\ req_index = 3
    /\ requests[2].eco_friendly
    /\ requests[2].status = "pending"
    /\ requests[1].assigned_vehicle = 0
    /\ vehicles[1].status # "IDLE"
    /\ vehicles[2].status = "IDLE"
    /\ vehicles[2].capacity >= requests[2].passengers

\* time1 + time2 of the candidate the for loop computes for a vehicle.
candidate_time(vehicle, request) ==
    total_time_cost(evaluate_vehicle(config.search_algorithm_func, config.heuristic,
                                     vehicle, request, nodes, edges))

\* C12: assign_request_to_vehicle selects a vehicle of minimum total time:
\* no eligible candidate has a strictly smaller leg-1 time (station travel
\* and refuel dwell included when a detour is spliced in) plus leg-2 time
\* than the selected vehicle, whatever the distances.
C12_MinimumTotalTime ==
    [][assignment_turn =>
          LET id == new_requests[req_index]
              request == requests[id + 1]
              chosen == requests'[id + 1].assigned_vehicle
          IN  chosen # None =>
                  \A k \in eligible_vehicles(vehicles, request) :
                      candidate_time(vehicles[k], request)
                          >= candidate_time(vehicles[chosen + 1], request)
      ]_vars

\* The first request went to the Combustion vehicle although the Eletric
\* vehicle, still IDLE, offered a shorter route: rain made that route slower.
C12_Witness ==
    /\ pc = "requests"
    /\ req_index = 2
    /\ requests[1].assigned_vehicle = 1
    /\ vehicles[1].status = "IDLE"
    /\ LET c == evaluate_vehicle(config.search_algorithm_func, config.heuristic,
                                 vehicles[1], requests[1], nodes, edges)
       IN  /\ c.total_distance < stats.total_distance
           /\ total_time_cost(c) > stats.total_time

\* The candidate the for loop computes for a vehicle and a request.
candidate(vehicle, request) ==
    evaluate_vehicle(config.search_algorithm_func, config.heuristic,
                     vehicle, request, nodes, edges)

\* C13: whenever the vehicle selected for a request is flagged by
\* needs_refuel for leg 1 + leg 2, the assignment leaves it on the way to a
\* station (phase to_refuel, or already dwelling in REFUELING when it stands
\* on the station), never directly on the way to the pickup.
C13_FlaggedVehicleRefuelsFirst ==
    [][assignment_turn =>
          LET id == new_requests[req_index]
              request == requests[id + 1]
              chosen == requests'[id + 1].assigned_vehicle
          IN  (chosen # None /\ candidate(vehicles[chosen + 1], request).refuel_needed)
                  => vehicles'[chosen + 1].phase \in {"to_refuel", "refueling"}
      ]_vars

\* The transitions of (status, phase) the lifecycle allows.
Lifecycle ==
    { << <<"IDLE", "none">>, <<"TRAVELING", "to_refuel">> >>,
      << <<"IDLE", "none">>, <<"TRAVELING", "to_pickup">> >>,
      << <<"TRAVELING", "to_refuel">>, <<"REFUELING", "refueling">> >>,
      << <<"REFUELING", "refueling">>, <<"TRAVELING", "to_pickup">> >>,
      << <<"TRAVELING", "to_pickup">>, <<"TRAVELING", "to_dropoff">> >>,
      << <<"TRAVELING", "to_dropoff">>, <<"IDLE", "none">> >> }

\* C14: every write of a vehicle's status or phase follows the lifecycle
\* IDLE -> to_refuel or to_pickup, to_refuel -> REFUELING, REFUELING ->
\* to_pickup, to_pickup -> to_dropoff, to_dropoff -> IDLE; a travelling
\* phase is left only with the last node of the path reached (one node left
\* in path) and REFUELING only with refuel_time_remaining <= 0.
C14_VehicleLifecycle ==
    \A k \in 1..Len(vehicles) :
        LET trail == vehicles[k].trail
        IN  /\ trail[Len(trail)][1] = vehicles[k].status
            /\ trail[Len(trail)][2] = vehicles[k].phase
            /\ \A j \in 2..Len(trail) :
                   LET from == <<trail[j - 1][1], trail[j - 1][2]>>
                       to   == <<trail[j][1], trail[j][2]>>
                   IN  /\ <<from, to>> \in Lifecycle
                       /\ from[1] = "TRAVELING" => trail[j][3] = 1
                       /\ from[1] = "REFUELING" => trail[j][4] <= 0

\* A vehicle has just left REFUELING for the pickup after its dwell, having
\* reached the station in an earlier update.
C14_Witness ==
    \E k \in 1..Len(vehicles) :
        /\ Len(vehicles[k].trail) = 2
        /\ vehicles[k].trail[1][1] = "REFUELING"
        /\ vehicles[k].trail[1][4] > 0
        /\ vehicles[k].status = "TRAVELING"
        /\ vehicles[k].phase = "to_pickup"
        /\ requests[vehicles[k].current_request + 1].status = "assigned"

\* The statuses of a request in the order of its lifecycle.
RequestLifecycle == <<"pending", "assigned", "picked_up", "completed">>

\* C15: the statuses a request has been given, in order, are an initial
\* part of pending, assigned, picked_up, completed: the status only moves
\* forward one stage at a time and nothing follows completed.
C15_RequestStatusForward ==
    \A i \in 1..Len(requests) :
        LET history == requests[i].history
        IN  /\ Len(history) \in 1..Len(RequestLifecycle)
            /\ history = SubSeq(RequestLifecycle, 1, Len(history))
            /\ requests[i].status = history[Len(history)]

\* Both requests went through all four stages.
C15_Witness ==
    /\ \A i \in 1..Len(requests) :
           requests[i].status = "completed" /\ requests[i].history = RequestLifecycle
    /\ requests[1].assigned_vehicle = requests[2].assigned_vehicle

\* The clock reached or passed a multiple of 30 minutes since the previous
\* tick.
crossed_refresh_boundary ==
    \E boundary \in (current_time - config.time_step + 1)..current_time :
        boundary % 30 = 0

\* C16: in every tick in which the clock reached or passed a multiple of 30
\* minutes since the previous tick, step() leaves the edges as
\* apply_events_to_edges(current_time) computes them before the requests
\* are assigned, whatever the step size.
C16_RefreshOnEveryBoundary ==
    [][(pc = "ready" /\ pc' = "requests" /\ config.event_manager
            /\ crossed_refresh_boundary)
          => edges' = apply_events_to_edges(edges, weather_zones, traffic_zones,
                                            current_time)
      ]_vars

\* The order of the phases of step(): the pairs of consecutive positions.
StepOrder ==
    { <<"ready", "ready">>, <<"ready", "requests">>, <<"requests", "requests">>,
      <<"requests", "statistics">>, <<"statistics", "clock">>, <<"clock", "ready">> }

\* Every request due at the current time has had its turn in the loop of
\* process_new_requests.
all_due_considered ==
    /\ req_index > Len(new_requests)
    /\ \A i \in 1..Len(requests) :
           (requests[i].requested_time <= current_time /\ requests[i].status = "pending")
               => \E j \in 1..Len(new_requests) : new_requests[j] = requests[i].id

\* C17: within one step() the event refresh comes first, then the
\* assignment of the due pending requests, then the update of the vehicles,
\* then the statistics, then the clock advance: edges change only at the
\* start of a tick, requests are assigned only before the vehicle update,
\* the vehicles are updated only once every request due at the current time
\* has been considered, the statistics are recomputed after that and the
\* clock moves last, by time_step.
C17_StepOrder ==
    [][ /\ <<pc, pc'>> \in StepOrder
        /\ edges' # edges => (pc = "ready" /\ pc' = "requests")
        /\ (\E i \in 1..Len(requests) :
                requests[i].status = "pending" /\ requests'[i].status # "pending")
               => (pc = "requests" /\ pc' = "requests")
        /\ pc' = "statistics"
               => (pc = "requests" /\ all_due_considered
                   /\ vehicles' = update_vehicles(vehicles, requests, 1, nodes, edges,
                                                  config.time_step)[1])
        /\ pc' = "clock"
               => (pc = "statistics" /\ vehicles' = vehicles
                   /\ stats' = update_statistics(stats, requests, current_time,
                                                 config.end_time))
        /\ current_time' # current_time
               => (pc = "clock" /\ current_time' = current_time + config.time_step)
      ]_vars

\* The vehicles have been updated in a tick in which two requests were due
\* and both were assigned before the update moved the vehicles.
C17_Witness ==
    /\ pc = "statistics"
    /\ Len(new_requests) = 2
    /\ \A i \in 1..Len(requests) : requests[i].status = "assigned"
    /\ \A k \in 1..Len(vehicles) :
           /\ vehicles[k].status = "TRAVELING"
           /\ vehicles[k].time_remaining_on_edge < vehicles[k].edge_travel_time

\* The fields of the edges no step of the simulation writes.
edge_layout(es) ==
    [n \in DOMAIN es |->
        [i \in 1..Len(es[n]) |->
            <<es[n][i].target, es[n][i].distance, es[n][i].open>>]]

\* C18: during a run the nodes never change and the edges change only in
\* the event refresh at the start of a tick, where they become what
\* apply_events_to_edges computes and keep their target, distance and open
\* flag; the searches of an assignment and the vehicle updates leave every
\* node and every edge field as they were.
C18_SingleWriterOfEdges ==
    [][ /\ nodes' = nodes
        /\ edge_layout(edges') = edge_layout(edges)
        /\ edges' # edges
               => /\ pc = "ready" /\ pc' = "requests"
                  /\ config.event_manager /\ current_time % 30 = 0
                  /\ edges' = apply_events_to_edges(edges, weather_zones,
                                                    traffic_zones, current_time)
        /\ (pc = "requests" \/ pc = "statistics" \/ pc = "clock") => edges' = edges
      ]_vars

\* Requests have been assigned through searches and the vehicles updated
\* while rain holds the edges of node 0 above their base time: the edges
\* are still exactly what the refresh of this tick left.
C18_Witness ==
    /\ pc = "statistics"
    /\ config.event_manager
    /\ \E i \in 1..Len(edges[0]) : edges[0][i].time > edges[0][i].created_time
    /\ edges = apply_events_to_edges(edges, weather_zones, traffic_zones, current_time)
    /\ \E i \in 1..Len(requests) : requests[i].status = "assigned"
    /\ \E k \in 1..Len(vehicles) :
           /\ vehicles[k].status = "TRAVELING"
           /\ vehicles[k].time_remaining_on_edge < vehicles[k].edge_travel_time

----------------------------------------------------------------------------
(* Claims about building the graph (SpecBuild) *)

\* Number of edges from -> to.
edge_count(es, from, to) ==
    Cardinality({i \in 1..Len(es[from]) : es[from][i].target = to})

graph_well_formed ==
    /\ \A k \in 1..Len(nodes) : nodes[k].id = k - 1
    /\ DOMAIN edges = NodeIds(nodes)
    /\ \A n \in DOMAIN edges :
           \A i \in 1..Len(edges[n]) : HasNode(nodes, edges[n][i].target)
    /\ ~directed =>
           \A u \in DOMAIN edges, v \in DOMAIN edges :
               IF u = v THEN edge_count(edges, u, u) % 2 = 0
               ELSE edge_count(edges, u, v) = edge_count(edges, v, u)

add_edge_rejected ==
    (result'.alg = "add_edge"
        /\ (~HasNode(nodes, result'.id1) \/ ~HasNode(nodes, result'.id2)))
        => (result'.error = "ValueError" /\ UNCHANGED gvars)

\* C19: add_edge(u, v) raises when u or v is not an existing node id and
\* leaves the graph as it was; after any sequence of add_node and add_edge
\* calls, failed or not, the node ids are exactly 0..N-1, every edge target
\* is an existing node id, and in an undirected graph each edge has its
\* mirror (both directions created or neither).
C19_AddEdgeValidatesNodes == []graph_well_formed /\ [][add_edge_rejected]_vars

\* add_edge(1, -1) has just been refused on an undirected graph of two nodes
\* that already holds the road 0 - 1 in both directions.
C19_Witness ==
    /\ result = call("add_edge", 1, 0 - 1, "ValueError")
    /\ ~directed
    /\ Len(nodes) = 2
    /\ edge_count(edges, 0, 1) = 1
    /\ edge_count(edges, 1, 0) = 1

\* Everything of the edges but the open flags.
edge_weights(es) ==
    [n \in DOMAIN es |->
        [i \in 1..Len(es[n]) |-> [es[n][i] EXCEPT !.open = TRUE]]]

\* C20: close_road(u, v) raises nothing; when an edge u -> v or v -> u
\* exists, afterwards every such edge has open = false, every other edge
\* keeps its flag, and the pair is recorded (is_road_open(u, v) is false);
\* when neither exists, edges and closed_roads are left as they were; in
\* both cases no edge's target, distance or time changes.
C20_CloseRoad ==
    [][result'.alg = "close_road" =>
          LET u == result'.id1
              v == result'.id2
          IN  /\ result'.error = "none"
              /\ nodes' = nodes
              /\ edge_weights(edges') = edge_weights(edges)
              /\ IF road_found(edges, u, v)
                 THEN /\ \A n \in DOMAIN edges :
                             \A i \in 1..Len(edges[n]) :
                                 edges'[n][i].open =
                                     IF \/ n = u /\ edges[n][i].target = v
                                        \/ n = v /\ edges[n][i].target = u
                                     THEN FALSE
                                     ELSE edges[n][i].open
                      /\ closed_roads' = Append(closed_roads, <<u, v>>)
                      /\ ~is_road_open(closed_roads', u, v)
                 ELSE /\ edges' = edges
                      /\ closed_roads' = closed_roads
      ]_vars

\* close_road(1, 0) has closed the one-way road 0 -> 1 of a directed graph
\* and recorded the pair, the other road staying open.
C20_Witness ==
    /\ result = call("close_road", 1, 0, "none")
    /\ directed
    /\ closed_roads = << <<1, 0>> >>
    /\ edge_count(edges, 1, 0) = 0
    /\ \E i \in 1..Len(edges[0]) : edges[0][i].target = 1 /\ ~edges[0][i].open
    /\ \E n \in DOMAIN edges : \E i \in 1..Len(edges[n]) : edges[n][i].open

----------------------------------------------------------------------------
(* Claims about path metrics (SpecMetrics) and search results (SpecSearch) *)

\* C21: calculate_path_metrics is additive: for every path measured and
\* every split of it at a shared node, the distance and the time of the whole
\* path are the sums of those of the two parts, a consecutive pair without an
\* edge adding zero to both.
C21_PathMetricsAdditive ==
    result.call = "calculate_path_metrics" =>
        \A k \in 2..(Len(result.path) - 1) :
            LET left  == calculate_path_metrics(edges, SubSeq(result.path, 1, k))
                right == calculate_path_metrics(edges,
                             SubSeq(result.path, k, Len(result.path)))
            IN  result.returned = <<left[1] + right[1], left[2] + right[2]>>

\* [0, 2, 1] measured on a graph where 0 - 2 has no edge and 2 - 1 has one:
\* the first pair adds zero.
C21_Witness ==
    /\ result.call = "calculate_path_metrics"
    /\ result.path = <<0, 2, 1>>
    /\ first_edge_to(edges, 0, 2) = 0
    /\ result.returned = calculate_path_metrics(edges, <<2, 1>>)
    /\ result.returned[1] > 0

\* C22: a successful search returns, with its path, the sum of the edge
\* distances and the sum of the current edge times along that path, and
\* (0, 0, [node]) when origin and goal are the same node.
C22_SearchReturnsPathSums ==
    (result.alg # "none" /\ result.path # <<>>) =>
        IF result.start = result.goal
        THEN /\ result.path = <<result.start>>
             /\ result.distance = 0
             /\ result.time = 0
        ELSE /\ result.distance = calculate_path_metrics(edges, result.path)[1]
             /\ result.time = calculate_path_metrics(edges, result.path)[2]

----------------------------------------------------------------------------
(* Claims about energy, cost and emissions (SpecEnergy) *)

\* The levels of a type cover distance * (1 + SAFETY_MARGIN): the battery of
\* an Eletric, the fuel of a Combustion, and for a Hybrid the battery first
\* and the fuel for what the battery leaves.
covers_with_margin(t, distance) ==
    LET factor == 100 + SAFETY_MARGIN_PCT
    IN  IF t.kind = "Eletric"
        THEN t.battery_consumption * distance * factor <= 100 * t.current_battery
        ELSE IF t.kind = "Combustion"
        THEN t.fuel_consumption * distance * factor <= 100 * t.current_fuel
        ELSE \/ t.battery_consumption * distance * factor <= 100 * t.current_battery
             \/ t.fuel_consumption
                    * (t.battery_consumption * distance * factor - 100 * t.current_battery)
                  <= 100 * t.current_fuel * t.battery_consumption

\* C23: needs_refuel(vehicle, d) returns true exactly when the energy the
\* vehicle holds cannot cover d * (1 + 0.15): the battery for an Eletric, the
\* fuel for a Combustion, battery range plus fuel range for a Hybrid.
C23_NeedsRefuelExactlyWhenShort ==
    result.call = "needs_refuel" =>
        (result.returned <=> ~covers_with_margin(result.vehicle_type, result.distance))

\* The Eletric of capacity 50 and consumption 20 holding 2 kWh is flagged for
\* 50 km.
C23_Witness ==
    /\ result.call = "needs_refuel"
    /\ result.vehicle_type = Eletric(50 * EnergyScale, 20, 2 * EnergyScale)
    /\ result.distance = 50000
    /\ result.returned

\* What a consume step took from the battery and from the fuel, at the prices
\* of the cost function.
depleted_cost(before, after) ==
    PRECO_BATERIA_CENTS * (before.current_battery - after.current_battery)
    + PRECO_COMBUSTIVEL_CENTS * (before.current_fuel - after.current_fuel)

\* C24: for every battery level, fuel level and distance d, the cost
\* _calculate_operational_cost charges a Hybrid for d equals the battery
\* price times the battery Hybrid.consume(d) depletes plus the fuel price
\* times the fuel it depletes.
C24_CostMatchesConsume ==
    [][(/\ result.call = "cost"
        /\ result.vehicle_type.kind = "Hybrid"
        /\ result'.call = "consume"
        /\ result'.distance = result.distance)
       => result.returned = depleted_cost(vehicles[1].vehicle_type,
                                          vehicles'[1].vehicle_type)]_vars

\* C25: Hybrid.calculate_emissions(d) charges EMISSIONS_HYBRID_G_PER_KM only
\* for the part of d beyond what the battery level covers: nothing when the
\* battery holds the energy of the whole of d, the whole of d when the battery
\* is empty.
C25_HybridEmissionsBeyondBattery ==
    (result.call = "consume" /\ result.vehicle_type.kind = "Hybrid") =>
        LET t == result.vehicle_type
            needed_battery == t.battery_consumption * result.distance
        IN  /\ needed_battery <= t.current_battery => result.returned = 0
            /\ needed_battery > t.current_battery =>
                   result.returned * t.battery_consumption
                       = EMISSIONS_HYBRID_G_PER_KM * (needed_battery - t.current_battery)
            /\ t.current_battery = 0 =>
                   result.returned = EMISSIONS_HYBRID_G_PER_KM * result.distance

\* A Hybrid whose battery covers 5 of the 10 km is charged for the other 5.
C25_Witness ==
    /\ result.call = "consume"
    /\ result.vehicle_type.kind = "Hybrid"
    /\ result.vehicle_type.current_battery = EnergyScale
    /\ result.distance = 10000
    /\ result.returned = EMISSIONS_HYBRID_G_PER_KM * 5000
    /\ vehicles[1].total_emissions >= result.returned

----------------------------------------------------------------------------
(* Claims about the clock, the end of the run and the statistics (Spec, SpecRun) *)

\* What a step of the model may do to the clock: only the end of an executed
\* step() moves it, by time_step exactly, and a step() on a finished
\* simulation returns 'finished' and leaves everything else as it was.
clock_step ==
    /\ current_time' >= current_time
    /\ config' = config
    /\ IF pc = "clock"
       THEN current_time' = current_time + config.time_step /\ pc' = "ready"
       ELSE current_time' = current_time
    /\ (pc = "ready" /\ is_finished(current_time, config.end_time)) =>
           /\ step_result' = "finished"
           /\ UNCHANGED <<gvars, result, vehicles, requests, stats, current_time,
                          config, pc, new_requests, req_index>>

\* C26: the clock is an integer that starts at the configured start time,
\* grows by exactly time_step in every executed step() and never decreases;
\* for every time_step >= 1 the run ends with the clock at or past the end
\* bound; a step() on a finished simulation returns 'finished' and changes
\* nothing.
C26_ClockAdvancesAndRunEnds ==
    /\ current_time = StartTime
    /\ [](current_time \in Nat /\ config.time_step >= 1)
    /\ [][clock_step]_vars
    /\ <>[](pc = "ready" /\ is_finished(current_time, config.end_time))

\* A run with time_step 7 has ended past the end bound and step() has been
\* called once more.
C26_Witness ==
    /\ pc = "ready"
    /\ config.time_step = 7
    /\ current_time > config.end_time
    /\ step_result = "finished"

\* C27: once the simulation has finished (the clock at or beyond the end
\* bound, no step() under way), stats['requests_not_served'] equals the
\* number of requests whose status is still 'pending'.
C27_UnservedReported ==
    (pc = "ready" /\ is_finished(current_time, config.end_time)) =>
        stats.requests_not_served = count_status(requests, {"pending"})

\* Request i is completed and vehicle k, which carried it, is back to IDLE
\* with no path left.
trip_done(i, k) ==
    /\ requests[i].status = "completed"
    /\ vehicles[k].status = "IDLE"
    /\ vehicles[k].path = <<>>

\* C28: while step() keeps being executed with time_step >= 1, every request
\* that becomes 'assigned' eventually becomes 'completed' and the vehicle
\* that held it is then IDLE with an empty path.
C28_AssignedTripsFinish ==
    \A i \in 1..2, k \in 1..2 :
        (requests[i].status = "assigned" /\ vehicles[k].current_request = i - 1)
            ~> trip_done(i, k)

\* Before the end bound, a request that had to wait for the vehicle of the
\* other one has been assigned in a later tick and has gone through all its
\* statuses; both vehicles are IDLE with no path.
C28_Witness ==
    /\ pc = "ready"
    /\ ~is_finished(current_time, config.end_time)
    /\ current_time > StartTime + Horizon
    /\ \A i \in 1..2 :
           requests[i].history = <<"pending", "assigned", "picked_up", "completed">>
    /\ requests[1].assigned_vehicle = requests[2].assigned_vehicle
    /\ \A k \in 1..2 : vehicles[k].status = "IDLE" /\ vehicles[k].path = <<>>

----------------------------------------------------------------------------
(* Claims about requests, vehicles and counters at tick boundaries (Spec) *)

\* The vehicles whose current_request is request i.
holders(i) == {k \in 1..Len(vehicles) : vehicles[k].current_request = i - 1}

\* Request i is held by exactly one vehicle, whose phase is one of phases.
held_in_phase(i, phases) ==
    /\ Cardinality(holders(i)) = 1
    /\ \A k \in holders(i) : vehicles[k].phase \in phases

C30_CountersPartitionRequests ==
    (pc = "ready" /\ step_result # "none") =>
        /\ stats.requests_completed + stats.requests_pending
              + stats.requests_in_progress = Len(requests)
        /\ stats.requests_completed = count_status(requests, {"completed"})
        /\ stats.requests_pending = count_status(requests, {"pending"})
        /\ stats.requests_in_progress = count_status(requests, {"assigned", "picked_up"})

\* After a step one request is completed, one is under way and none is pending.
C30_Witness ==
    /\ pc = "ready"
    /\ step_result = "running"
    /\ stats.requests_completed = 1
    /\ stats.requests_in_progress = 1
    /\ stats.requests_pending = 0
    /\ \E i \in 1..Len(requests) : requests[i].status = "assigned"

====
